---- MODULE Spec2Model ----
(***************************************************************************)
(* juju-stack: composition resolver, deployment plan compiler and plan     *)
(* execution (src/stack/component.py, config.py, charmhub.py, juju.py,     *)
(* cli/juju.py).                                                           *)
(*                                                                         *)
(* Strings are sequences of atoms.  The atoms ".", "/", ":", "-" and "s"    *)
(* are the characters the code inspects (startswith, in, split, replace,   *)
(* join): "-" is always an atom of its own, and so is an "s" that stands   *)
(* alone between two "-" or at an end of a name, so that the separator     *)
(* "-s-" is found wherever the characters of a string spell it.  Every     *)
(* other atom is an opaque run of characters without "-".                  *)
(* A Python dict is a sequence of [name, ...] entries in insertion order   *)
(* whose names are pairwise different, or a record whose DOMAIN is the set *)
(* of keys present.                                                        *)
(***************************************************************************)
EXTENDS Integers, Sequences, FiniteSets, TLC

\* ---------------------------------------------------------------- bounds
\* Deepest nesting of Stack.__init__ frames the interpreter allows before it
\* raises RecursionError.
RecursionLimit == 5
\* Number of Plan.deploy() invocations a caller of the Plan object makes.
MaxExecutions == 2
\* Number of revisions uploaded under one name of the registry.
MaxRevisions == 2

\* ------------------------------------------------------------- constants
COMPONENT_TYPES == <<"stack", "charm">>
STACK_SEPARATOR == <<"-", "s", "-">>
STACK_SEPARATOR_REPR == <<".">>
CHARMHUB_CHANNELS == <<"stable", "candidate", "beta", "edge">>

\* ResourceType values
CHARM == "charms"
SAAS == "saas"
OFFER == "offers"
RELATION == "relation"

\* Python None in a string-valued field
None == <<"<None>">>

\* ------------------------------------------------------ string operations
\* str.join
RECURSIVE Join(_, _)
Join(list, sep) ==
    IF Len(list) = 0 THEN <<>>
    ELSE IF Len(list) = 1 THEN list[1]
    ELSE list[1] \o sep \o Join(Tail(list), sep)

\* str.replace: every occurrence of `old`, leftmost first, not overlapping
RECURSIVE Replace(_, _, _)
Replace(s, old, new) ==
    IF Len(s) < Len(old) THEN s
    ELSE IF SubSeq(s, 1, Len(old)) = old
         THEN new \o Replace(SubSeq(s, Len(old) + 1, Len(s)), old, new)
         ELSE <<s[1]>> \o Replace(Tail(s), old, new)

\* str.startswith / the `in` operator for a one-atom pattern
StartsWith(s, a) == Len(s) > 0 /\ s[1] = a
Contains(s, a) == \E i \in 1..Len(s) : s[i] = a

\* str.split for a one-atom delimiter: the list of parts
RECURSIVE Split(_, _)
Split(s, a) ==
    IF ~Contains(s, a) THEN <<s>>
    ELSE LET i == CHOOSE k \in 1..Len(s) :
                      s[k] = a /\ \A j \in 1..(k - 1) : s[j] # a
         IN <<SubSeq(s, 1, i - 1)>> \o Split(SubSeq(s, i + 1, Len(s)), a)

\* str(n) for the unit counts in use
IntToStr(n) == <<(<<"1", "2", "3">>)[n]>>

\* dict.get(key, default) on a record
Get(d, key, default) == IF key \in DOMAIN d THEN d[key] ELSE default

\* position of the entry called `name` in an ordered dict, 0 when absent
IndexOfName(entries, name) ==
    IF \E i \in 1..Len(entries) : entries[i].name = name
    THEN CHOOSE i \in 1..Len(entries) : entries[i].name = name
    ELSE 0

\* outcome of a call: a value, or the exception it raised
Ok(v) == [ok |-> TRUE, err |-> "", val |-> v]
Err(e) == [ok |-> FALSE, err |-> e, val |-> <<>>]

\* ------------------------------------------------------------ input data
\* a local path "./<dir>" and an endpoint reference "<component>:<endpoint>"
Path(dir) == <<".", "/", dir>>
Ref(c, e) == <<c, ":", e>>

CharmEntry(n, uri) == [name |-> <<n>>, data |-> [charm |-> <<uri>>]]
RichCharmEntry(n, uri) ==
    [name |-> <<n>>,
     data |-> [charm |-> <<uri>>, units |-> 2, channel |-> <<"edge">>,
               trust |-> TRUE,
               config |-> <<[name |-> <<"port">>, value |-> <<"80">>]>>]]
LocalStackEntry(n, dir) == [name |-> <<n>>, data |-> [stack |-> Path(dir)]]
HubStackEntry(n, hubName) == [name |-> <<n>>, data |-> [stack |-> <<hubName>>]]
HubChannelEntry(n, hubName, ch) ==
    [name |-> <<n>>, data |-> [stack |-> <<hubName>>, channel |-> <<ch>>]]
Forward(n, c, e) == [name |-> <<n>>, forward |-> Ref(c, e)]
Rel(pc_, pe, rc, re) == [provider |-> Ref(pc_, pe), requirer |-> Ref(rc, re)]

StackDataOf(n, comps, prov, req, rels) ==
    [name |-> <<n>>, components |-> comps, provides |-> prov,
     requires |-> req, relations |-> rels]

\* root specs: the sub-stack "web" is the registry stack "frontend"
ShopSpecs ==
    { StackDataOf("shop",
          <<CharmEntry("db", "mysql"), HubStackEntry("web", "frontend")>>,
          <<>>, <<>>,
          <<Rel("db", "mysql", "web", "backend")>>),
      StackDataOf("shop",
          <<HubStackEntry("web", "frontend"), CharmEntry("db", "mysql")>>,
          <<>>, <<>>,
          <<Rel("db", "mysql", "web", "backend")>>),
      StackDataOf("shop",
          <<CharmEntry("db", "mysql"), HubStackEntry("web", "frontend"),
            CharmEntry("lb", "haproxy")>>,
          <<>>, <<>>,
          <<Rel("db", "mysql", "web", "backend"),
            Rel("web", "site", "lb", "reverse")>>) }

FrontendForwards == <<Forward("site", "ui", "http")>>
FrontendRequires == <<Forward("backend", "ui", "db")>>

\* a spec whose every reference is in order
PlainShop ==
    StackDataOf("shop",
        <<CharmEntry("db", "mysql"), HubStackEntry("web", "frontend")>>,
        <<>>, <<>>,
        <<Rel("db", "mysql", "web", "backend")>>)
PlainFrontend ==
    StackDataOf("frontend",
        <<RichCharmEntry("ui", "nginx")>>,
        FrontendForwards, FrontendRequires, <<>>)
DeepFrontend ==
    StackDataOf("frontend",
        <<HubChannelEntry("core", "inner", "edge")>>,
        <<Forward("site", "core", "site")>>,
        <<Forward("backend", "core", "backend")>>, <<>>)
\* the stack includes itself
CyclicFrontend ==
    StackDataOf("frontend",
        <<CharmEntry("ui", "nginx"), HubStackEntry("again", "frontend")>>,
        FrontendForwards, FrontendRequires, <<>>)

\* revisions of the registry stack "frontend"; "core" is the registry stack
\* "inner", released to the channel "edge"
FrontendSpecs ==
    { PlainFrontend,
      StackDataOf("frontend",
          <<CharmEntry("ui", "nginx"), CharmEntry("sess", "memcached")>>,
          FrontendForwards, FrontendRequires,
          <<Rel("sess", "cache", "ui", "sess")>>),
      DeepFrontend,
      StackDataOf("frontend",
          <<HubChannelEntry("core", "inner", "edge"), CharmEntry("ui", "nginx")>>,
          FrontendForwards,
          <<Forward("backend", "core", "backend")>>,
          <<Rel("ui", "http", "core", "front")>>),
      CyclicFrontend }

InnerProvides == <<Forward("site", "app", "http")>>
InnerRequires == <<Forward("backend", "app", "db"), Forward("front", "app", "web")>>

PlainInner ==
    StackDataOf("inner",
        <<CharmEntry("app", "django")>>,
        InnerProvides, InnerRequires, <<>>)
\* the stack includes the stack that includes it
CyclicInner ==
    StackDataOf("inner",
        <<CharmEntry("app", "django"), HubStackEntry("up", "frontend")>>,
        InnerProvides, InnerRequires, <<>>)

\* revisions of the registry stack "inner"
InnerSpecs ==
    { PlainInner,
      StackDataOf("inner",
          <<CharmEntry("app", "django"), CharmEntry("aux", "redis")>>,
          InnerProvides, InnerRequires,
          <<Rel("aux", "kv", "app", "cache")>>),
      CyclicInner }

\* one endpoint of the sub-stack is the provider of two relations
FanOutShop ==
    StackDataOf("shop",
        <<CharmEntry("db", "mysql"), HubStackEntry("web", "frontend"),
          CharmEntry("lb", "haproxy")>>,
        <<>>, <<>>,
        <<Rel("web", "site", "db", "front"), Rel("web", "site", "lb", "reverse")>>)

\* a charm called "web-s-ui" next to the sub-stack "web", which holds "ui"
ClashShop ==
    StackDataOf("shop",
        <<[name |-> <<"web", "-", "s", "-", "ui">>, data |-> [charm |-> <<"varnish">>]],
          HubStackEntry("web", "frontend")>>,
        <<>>, <<>>, <<>>)

\* a sub-stack called "web-s"
DashSShop ==
    StackDataOf("shop",
        <<[name |-> <<"web", "-", "s">>, data |-> [stack |-> <<"frontend">>]],
          CharmEntry("db", "mysql")>>,
        <<>>, <<>>, <<>>)

\* a relation side names an endpoint the sub-stack has in its other map
WrongProviderShop ==
    StackDataOf("shop",
        <<CharmEntry("db", "mysql"), HubStackEntry("web", "frontend")>>,
        <<>>, <<>>,
        <<Rel("web", "backend", "db", "front")>>)
WrongRequirerShop ==
    StackDataOf("shop",
        <<CharmEntry("db", "mysql"), HubStackEntry("web", "frontend")>>,
        <<>>, <<>>,
        <<Rel("db", "mysql", "web", "site")>>)

\* a forward names an endpoint the sub-stack has in its other map
WrongProvidesFrontend ==
    StackDataOf("frontend",
        <<HubChannelEntry("core", "inner", "edge")>>,
        <<Forward("site", "core", "backend")>>,
        <<Forward("backend", "core", "backend")>>, <<>>)
WrongRequiresFrontend ==
    StackDataOf("frontend",
        <<HubChannelEntry("core", "inner", "edge")>>,
        <<Forward("site", "core", "site")>>,
        <<Forward("backend", "core", "site")>>, <<>>)

\* a component entry with neither `charm` nor `stack`, and one with both,
\* each after an entry that is in order
NeitherShop ==
    StackDataOf("shop",
        <<HubStackEntry("web", "frontend"),
          [name |-> <<"db">>, data |-> [units |-> 2]]>>,
        <<>>, <<>>, <<>>)
BothShop ==
    StackDataOf("shop",
        <<CharmEntry("db", "mysql"),
          [name |-> <<"web">>,
           data |-> [charm |-> <<"nginx">>, stack |-> <<"frontend">>]]>>,
        <<>>, <<>>, <<>>)

\* registry references: a channel nothing was released to, no channel given
\* for a stack released to "edge" only, and a name that was only registered
UnreleasedChannelShop ==
    StackDataOf("shop",
        <<HubChannelEntry("web", "frontend", "candidate"), CharmEntry("db", "mysql")>>,
        <<>>, <<>>,
        <<Rel("db", "mysql", "web", "backend")>>)
DefaultChannelShop ==
    StackDataOf("shop",
        <<HubStackEntry("web", "inner"), CharmEntry("db", "mysql")>>,
        <<>>, <<>>,
        <<Rel("db", "mysql", "web", "backend")>>)
DraftShop ==
    StackDataOf("shop",
        <<HubStackEntry("web", "draft"), CharmEntry("db", "mysql")>>,
        <<>>, <<>>, <<>>)

\* the sub-stack "web" is the directory ./frontend
LocalShop ==
    StackDataOf("shop",
        <<CharmEntry("db", "mysql"), LocalStackEntry("web", "frontend")>>,
        <<>>, <<>>,
        <<Rel("db", "mysql", "web", "backend")>>)

\* the stack.yaml files on disk: ./shop, and ./shop with ./frontend
FilesOf1(s) == [p \in {Path("shop")} |-> s]
FilesOf2(s, f) ==
    [p \in {Path("shop"), Path("frontend")} |-> IF p = Path("shop") THEN s ELSE f]

\* the entry CharmHub._register_name writes: nothing uploaded, nothing released
Registered ==
    [latest |-> -1,
     revisions |-> [r \in {} |-> 0],
     channels |-> [c \in {CHARMHUB_CHANNELS[k] : k \in 1..Len(CHARMHUB_CHANNELS)}
                       |-> -1]]

\* a registry entry whose revision 0 is `data`, released to channel `ch`
Released(data, ch) ==
    [latest |-> 0,
     revisions |-> [r \in {0} |-> data],
     channels |-> [c \in {CHARMHUB_CHANNELS[k] : k \in 1..Len(CHARMHUB_CHANNELS)}
                       |-> IF c = ch THEN 0 ELSE -1]]

\* a registry entry whose revision 0 was `first` and whose revision 1 is
\* `data`, released to channel `ch`
ReleasedOver(first, data, ch) ==
    [latest |-> 1,
     revisions |-> [r \in {0, 1} |-> IF r = 0 THEN first ELSE data],
     channels |-> [c \in {CHARMHUB_CHANNELS[k] : k \in 1..Len(CHARMHUB_CHANNELS)}
                       |-> IF c = ch THEN 1 ELSE -1]]

\* the registry file after "frontend" was released to "stable" and "inner"
\* to "edge" and "draft" was registered.  upload refuses a spec that
\* references a stack with nothing released (charmhub.py 125-137), so a spec
\* that leads back to itself is a second revision.
RegistryOf(f, i) ==
    [n \in {<<"frontend">>, <<"inner">>, <<"draft">>} |->
        IF n = <<"frontend">>
        THEN IF f = CyclicFrontend
             THEN ReleasedOver(PlainFrontend, f, "stable")
             ELSE Released(f, "stable")
        ELSE IF n = <<"inner">>
        THEN IF i = CyclicInner
             THEN ReleasedOver(PlainInner, i, "edge")
             ELSE Released(i, "edge")
        ELSE Registered]
EmptyRegistry == [n \in {} |-> 0]

\* the files on disk together with the registry file
World(fs, registry) == [files |-> fs, hub |-> registry]
Worlds ==
    { World(FilesOf1(s), RegistryOf(f, i)) :
        s \in ShopSpecs, f \in FrontendSpecs, i \in InnerSpecs }
    \cup { World(FilesOf1(s), EmptyRegistry) : s \in ShopSpecs }
    \cup { World(FilesOf1(s), RegistryOf(PlainFrontend, PlainInner)) :
             s \in { FanOutShop, ClashShop, WrongProviderShop, WrongRequirerShop,
                     NeitherShop, BothShop, UnreleasedChannelShop,
                     DefaultChannelShop, DraftShop, LocalShop } }
    \cup { World(FilesOf1(DashSShop), RegistryOf(DeepFrontend, PlainInner)),
           World(FilesOf1(PlainShop), RegistryOf(WrongProvidesFrontend, PlainInner)),
           World(FilesOf1(PlainShop), RegistryOf(WrongRequiresFrontend, PlainInner)),
           World(FilesOf2(LocalShop, PlainFrontend),
                 RegistryOf(PlainFrontend, PlainInner)) }

\* the instance file config.yaml
ConfigOf(overrides, defaults) ==
    ("components" :> overrides) @@ defaults
NoDefault == [k \in {} |-> <<>>]
DefaultModel(m) == ("default-model" :> <<m>>)
Override(key, m) == [name |-> key, data |-> [model |-> <<m>>]]
Configs ==
    { ConfigOf(<<>>, NoDefault),
      ConfigOf(<<Override(<<"web">>, "m2")>>, NoDefault),
      ConfigOf(<<Override(<<"web", ".", "core">>, "m3"),
                 Override(<<"web", "-", "s", ".", "core">>, "m3")>>, NoDefault),
      ConfigOf(<<Override(<<"web">>, "m2"), Override(<<"web", ".", "core">>, "m2")>>,
               NoDefault),
      ConfigOf(<<>>, DefaultModel("m1")),
      ConfigOf(<<Override(<<"db">>, "m9"), Override(<<"web">>, "m2")>>,
               DefaultModel("m1")),
      ConfigOf(<<Override(<<"db">>, "m9")>>, NoDefault),
      ConfigOf(<<[name |-> <<"web">>, data |-> [model |-> None]],
                 Override(<<"db">>, "m9")>>,
               DefaultModel("m1")) }

\* the <instance_name> argument of the command line; "" when left empty
InstanceNames == { <<"prod">>, <<>> }
CurrentModel == <<"cur">>

\* the instance file: empty, and with the record of an instance "prod" as
\* files.write_new_instance_in_file lays it out
NoInstances == [n \in {} |-> 0]
InstanceRecord(stack_name, inventory) ==
    [stack_name |-> stack_name, resources |-> inventory]
OldInstances ==
    (<<"prod">> :>
        InstanceRecord(<<"shop">>,
            (<<"cur">> :> [charms |-> <<<<"prod", "-", "s", "-", "db">>>>,
                           saas |-> <<>>, offers |-> <<>>])))

\* no registry command has been given yet
NoCommand == [op |-> "none"]

\* the stack.yaml files charmcraft-stack upload is given: two contents of
\* the stack "frontend" (the second includes the stack itself) and the
\* stack "shop", which includes "frontend"
HubFiles ==
    [p \in {Path("frontend"), Path("frontend2"), Path("shop")} |->
        IF p = Path("frontend") THEN PlainFrontend
        ELSE IF p = Path("frontend2") THEN CyclicFrontend
        ELSE PlainShop]
UploadPaths == DOMAIN HubFiles \cup {Path("nowhere")}
HubNames == { <<"frontend">>, <<"shop">> }

\* the revision argument of CharmHub.release: None, an int, or, from the
\* command line, the text of the option --revision
NoRevision == [type |-> "none", val |-> 0]
IntRevision(n) == [type |-> "int", val |-> n]
StrRevision(n) == [type |-> "str", val |-> n]
\* the channel arguments tried: two channels and a name that is none
ReleaseChannels == { <<"stable">>, <<"candidate">>, <<"nightly">> }

\* ------------------------------------------------------------------ state
VARIABLES
    files,      \* path -> content of <path>/stack.yaml, for the paths that exist
    hub,        \* the registry file: name -> latest, revisions, channels
    config,     \* content of the instance's config.yaml
    instances,  \* the instance file: instance name -> the record written for it
    arg,        \* the <instance_name> argument
    pc,         \* position of the flow of control
    stack,      \* the Stack object built from the root spec
    error,      \* the exception that is propagating, "" when none
    resources,  \* Plan._resources
    created,    \* Resource._created of each resource of the plan
    info,       \* Plan._info
    idx,        \* position of the loop of Plan.deploy
    executions, \* Plan.deploy invocations started
    calls,      \* Resource.create invocations of the current Plan.deploy
    runs,       \* per resource: create commands run, and run successfully
    output,     \* lines printed or logged
    removed,    \* the remove commands destroy_stack has run
    last        \* the last registry command and what it returned or raised

vars == <<files, hub, config, instances, arg, pc, stack, error, resources,
          created, info, idx, executions, calls, runs, output, removed, last>>

\* --------------------------------------------------------------- CharmHub
\* CharmHub._valid_path
ValidPath(stack_path) == stack_path \in DOMAIN files

\* CharmHub._load_stack_yaml
LoadStackYaml(stack_path) == files[stack_path]

\* CharmHub.exists
Exists(name) == name \in DOMAIN hub

\* CharmHub.is_channel_active; KeyError for an unknown name or channel
IsChannelActive(name, channel) ==
    IF name \notin DOMAIN hub THEN Err("KeyError")
    ELSE IF Len(channel) # 1 \/ channel[1] \notin DOMAIN hub[name].channels
         THEN Err("KeyError")
    ELSE Ok(hub[name].channels[channel[1]] >= 0)

\* mutant: a channel nothing was released to serves the latest revision
GetStack_FallsBackToLatest(name, channel) ==
    IF name \notin DOMAIN hub THEN Err("KeyError")
    ELSE IF Len(channel) # 1 \/ channel[1] \notin DOMAIN hub[name].channels
         THEN Err("KeyError")
    ELSE LET released == hub[name].channels[channel[1]]
             revision == IF released < 0 THEN hub[name].latest ELSE released
         IN IF revision \notin DOMAIN hub[name].revisions THEN Err("KeyError")
            ELSE Ok(hub[name].revisions[revision])

\* CharmHub.get_stack; KeyError for an unknown name, an unknown channel or a
\* channel that points at no stored revision
GetStack(name, channel) ==
    IF name \notin DOMAIN hub THEN Err("KeyError")
    ELSE IF Len(channel) # 1 \/ channel[1] \notin DOMAIN hub[name].channels
         THEN Err("KeyError")
    ELSE LET revision == hub[name].channels[channel[1]]
         IN IF revision \notin DOMAIN hub[name].revisions THEN Err("KeyError")
            ELSE Ok(hub[name].revisions[revision])

\* CharmHub._check_dependent_stacks, from component i on: the exception of
\* the first reference that is not in order
RECURSIVE CheckDependentStacks(_, _)
CheckDependentStacks(stack_data, i) ==
    IF i > Len(stack_data.components) THEN Ok(<<>>)
    ELSE LET component == stack_data.components[i].data
             channel == Get(component, "channel", <<"stable">>)
         IN IF "stack" \notin DOMAIN component
            THEN CheckDependentStacks(stack_data, i + 1)
            ELSE IF ~Exists(component.stack)
            THEN Err("Exception: name doesn't exist")
            ELSE IF Len(channel) # 1 \/ ~Contains(CHARMHUB_CHANNELS, channel[1])
            THEN Err("Exception: not valid channel")
            ELSE IF ~IsChannelActive(component.stack, channel).val
            THEN Err("Exception: not published stack in channel")
            ELSE CheckDependentStacks(stack_data, i + 1)

\* the registry with the entry of `name` replaced
WithEntry(name, entry) ==
    [n \in DOMAIN hub \cup {name} |-> IF n = name THEN entry ELSE hub[n]]

\* what a registry operation leaves: the registry file and its outcome
Left(registry, outcome) == [hub |-> registry, result |-> outcome]

\* CharmHub.register
Register(name) ==
    IF Exists(name) THEN Left(hub, Err("Exception: name already exist"))
    ELSE Left(WithEntry(name, Registered), Ok(<<>>))

\* CharmHub.unregister
Unregister(name) ==
    IF ~Exists(name) THEN Left(hub, Err("Exception: name doesn't exist"))
    ELSE Left([n \in DOMAIN hub \ {name} |-> hub[n]], Ok(<<>>))

\* mutant: a revision is added whether or not the content is that of the
\* latest revision
UploadStack_AlwaysAdds(name, stack_data) ==
    LET latest_revision == hub[name].latest
        revision == latest_revision + 1
    IN Left(WithEntry(name,
                [hub[name] EXCEPT
                   !.revisions = [r \in DOMAIN @ \cup {revision} |->
                                      IF r = revision THEN stack_data ELSE @[r]],
                   !.latest = revision]),
            Ok(<<revision>>))

\* CharmHub._upload_stack: the outcome holds the revision number returned,
\* and nothing when None is returned
UploadStack(name, stack_data) ==
    LET latest_revision == hub[name].latest
        revision == latest_revision + 1
    IN IF latest_revision >= 0 /\ stack_data = hub[name].revisions[latest_revision]
       THEN Left(hub, Ok(<<>>))
       ELSE Left(WithEntry(name,
                     [hub[name] EXCEPT
                        !.revisions = [r \in DOMAIN @ \cup {revision} |->
                                           IF r = revision THEN stack_data ELSE @[r]],
                        !.latest = revision]),
                 Ok(<<revision>>))

\* CharmHub.upload
Upload(stack_path) ==
    IF ~ValidPath(stack_path) THEN Left(hub, Err("Exception: Not stack.yaml found"))
    ELSE LET stack_data == LoadStackYaml(stack_path)
             name == stack_data.name
         IN IF ~Exists(name) THEN Left(hub, Err("Exception: name doesn't exist"))
            ELSE IF ~CheckDependentStacks(stack_data, 1).ok
            THEN Left(hub, CheckDependentStacks(stack_data, 1))
            ELSE UploadStack(name, stack_data)

\* truth value of the revision argument: None and the int 0 are false
TruthyRevision(revision) ==
    \/ revision.type = "str"
    \/ revision.type = "int" /\ revision.val # 0

\* CharmHub.has_revision for a registered name; the keys of `revisions` are
\* ints, so no text is among them
HasRevision(name, revision) ==
    IF TruthyRevision(revision)
    THEN revision.type = "int" /\ revision.val \in DOMAIN hub[name].revisions
    ELSE hub[name].latest >= 0

\* CharmHub.release with CharmHub._release_stack: the outcome holds the
\* revision of the pair returned; its channel is the argument
Release(name, revision, channel) ==
    IF ~Exists(name) THEN Left(hub, Err("Exception: name doesn't exist"))
    ELSE IF ~HasRevision(name, NoRevision)
    THEN Left(hub, Err("Exception: upload a stack before releasing"))
    ELSE IF TruthyRevision(revision) /\ ~HasRevision(name, revision)
    THEN Left(hub, Err("Exception: revision does not exist"))
    ELSE IF Len(channel) # 1 \/ ~Contains(CHARMHUB_CHANNELS, channel[1])
    THEN Left(hub, Err("Exception: not a valid value for channel"))
    ELSE LET released == IF ~TruthyRevision(revision) THEN hub[name].latest
                         ELSE revision.val
         IN Left(WithEntry(name, [hub[name] EXCEPT !.channels[channel[1]] = released]),
                 Ok(<<released>>))

\* ------------------------------------------------------------ components
\* A node of the tree is identified by the local names on the way from the
\* root to it: `path` stands for the object and for its chain of parents.

\* Component.name: the names handed out by the parents, joined by the separator
ComponentName(path) == Join(path, STACK_SEPARATOR)

\* Charm.__init__ as called by Stack._load_components
Charm(component_data, path) ==
    [kind |-> "charm",
     path |-> path,
     uri |-> component_data.charm,
     config |-> Get(component_data, "config", <<>>),
     units |-> Get(component_data, "units", 1),
     channel |-> Get(component_data, "channel", None),
     trust |-> Get(component_data, "trust", FALSE)]

\* Endpoint.__init__
Endpoint(endpoint, component) == [endpoint |-> endpoint, component |-> component]

\* mutant: a forward to a child stack is not followed
ResolveEndpoint_NotFollowed(endpoint_info, components, self, side) ==
    LET parts == Split(endpoint_info, ":")
    IN IF Len(parts) # 2 THEN Err("ValueError")
       ELSE LET k == IndexOfName(components, parts[1])
            IN IF k = 0 THEN Err("KeyError")
               ELSE LET component == components[k].node
                    IN IF component.kind # "stack"
                       THEN Ok(Endpoint(endpoint_info, self))
                       ELSE LET j == IndexOfName(component[side], parts[2])
                            IN IF j = 0 THEN Err("KeyError")
                               ELSE Ok(Endpoint(endpoint_info, self))

\* mutant: a name missing from the map of the direction is looked up in the
\* map of the other direction
ResolveEndpoint_EitherSide(endpoint_info, components, self, side) ==
    LET parts == Split(endpoint_info, ":")
        other == IF side = "provides" THEN "requires" ELSE "provides"
    IN IF Len(parts) # 2 THEN Err("ValueError")
       ELSE LET k == IndexOfName(components, parts[1])
            IN IF k = 0 THEN Err("KeyError")
               ELSE LET component == components[k].node
                    IN IF component.kind # "stack"
                       THEN Ok(Endpoint(endpoint_info, self))
                       ELSE LET j == IndexOfName(component[side], parts[2])
                                o == IndexOfName(component[other], parts[2])
                            IN IF j # 0 THEN Ok(component[side][j].ep)
                               ELSE IF o # 0 THEN Ok(component[other][o].ep)
                               ELSE Err("KeyError")

\* one side of a forward or of a relation: the endpoint of a local charm, or
\* the endpoint a child stack exposes under that name in its `side` map
ResolveEndpoint(endpoint_info, components, self, side) ==
    LET parts == Split(endpoint_info, ":")
    IN IF Len(parts) # 2 THEN Err("ValueError")
       ELSE LET k == IndexOfName(components, parts[1])
            IN IF k = 0 THEN Err("KeyError")
               ELSE LET component == components[k].node
                    IN IF component.kind # "stack"
                       THEN Ok(Endpoint(endpoint_info, self))
                       ELSE LET j == IndexOfName(component[side], parts[2])
                            IN IF j = 0 THEN Err("KeyError")
                               ELSE Ok(component[side][j].ep)

\* one loop of Stack._load_endpoints, from entry i on
RECURSIVE LoadForwards(_, _, _, _, _, _)
LoadForwards(entries, i, acc, components, self, side) ==
    IF i > Len(entries) THEN Ok(acc)
    ELSE LET r == ResolveEndpoint(entries[i].forward, components, self, side)
         IN IF ~r.ok THEN r
            ELSE LoadForwards(entries, i + 1,
                              Append(acc, [name |-> entries[i].name, ep |-> r.val]),
                              components, self, side)

\* Stack._load_endpoints
LoadEndpoints(data, components, self) ==
    LET p == LoadForwards(data.provides, 1, <<>>, components, self, "provides")
    IN IF ~p.ok THEN p
       ELSE LET r == LoadForwards(data.requires, 1, <<>>, components, self, "requires")
            IN IF ~r.ok THEN r
               ELSE Ok([provides |-> p.val, requires |-> r.val])

RECURSIVE LoadRelationsFrom(_, _, _, _, _)

\* mutant: each resolved relation is put in front of the list
LoadRelationsFrom_Prepends(rels, i, acc, components, self) ==
    IF i > Len(rels) THEN Ok(acc)
    ELSE LET p == ResolveEndpoint(rels[i].provider, components, self, "provides")
         IN IF ~p.ok THEN p
            ELSE LET r == ResolveEndpoint(rels[i].requirer, components, self, "requires")
                 IN IF ~r.ok THEN r
                    ELSE LoadRelationsFrom(rels, i + 1,
                             <<[provider |-> p.val, requirer |-> r.val]>> \o acc,
                             components, self)

\* Stack._load_relations, from relation i on
LoadRelationsFrom(rels, i, acc, components, self) ==
    IF i > Len(rels) THEN Ok(acc)
    ELSE LET p == ResolveEndpoint(rels[i].provider, components, self, "provides")
         IN IF ~p.ok THEN p
            ELSE LET r == ResolveEndpoint(rels[i].requirer, components, self, "requires")
                 IN IF ~r.ok THEN r
                    ELSE LoadRelationsFrom(rels, i + 1,
                             Append(acc, [provider |-> p.val, requirer |-> r.val]),
                             components, self)

LoadRelations(data, components, self) ==
    LoadRelationsFrom(data.relations, 1, <<>>, components, self)

RECURSIVE BuildStack(_, _, _)
RECURSIVE LoadComponentsFrom(_, _, _, _, _)

\* Stack.__init__ on what CharmHub._load_stack_yaml returns: a plain dict,
\* not a StackData, so that reading `stack_data.name` raises AttributeError
StackOfDict(stack_data, self) == Err("AttributeError")

\* mutant: only an entry with neither key is refused; of two keys the first
\* of COMPONENT_TYPES decides
LoadComponentsFrom_FirstTypeWins(data, i, acc, self, depth) ==
    IF i > Len(data.components) THEN Ok(acc)
    ELSE
      LET name == data.components[i].name
          component_data == data.components[i].data
          matched_types ==
              SelectSeq(COMPONENT_TYPES, LAMBDA t : t \in DOMAIN component_data)
          child == Append(self, name)
      IN IF Len(matched_types) = 0 THEN Err("Exception: charm or stack")
         ELSE IF matched_types[1] = "stack"
         THEN LET stack_uri == component_data.stack
                  is_local == StartsWith(stack_uri, ".") \/ Contains(stack_uri, "/")
                  loaded ==
                      IF is_local
                      THEN IF ~ValidPath(stack_uri)
                           THEN Err("Exception: Not stack.yaml found")
                           ELSE Ok(LoadStackYaml(stack_uri))
                      ELSE GetStack(stack_uri,
                                    Get(component_data, "channel", <<"stable">>))
              IN IF ~loaded.ok THEN loaded
                 ELSE IF is_local THEN StackOfDict(loaded.val, child)
                 ELSE LET built == BuildStack(loaded.val, child, depth - 1)
                      IN IF ~built.ok THEN built
                         ELSE LoadComponentsFrom(data, i + 1,
                                  Append(acc, [name |-> name, node |-> built.val]),
                                  self, depth)
         ELSE LoadComponentsFrom(data, i + 1,
                  Append(acc, [name |-> name, node |-> Charm(component_data, child)]),
                  self, depth)

\* Stack._load_components, from component i on; `depth` counts the frames of
\* Stack.__init__ the interpreter still allows.  A stack.yaml found at a
\* local path is handed to Stack as the dict yaml.safe_load returned; the
\* content of a registry revision is wrapped in StackData by get_stack.
LoadComponentsFrom(data, i, acc, self, depth) ==
    IF i > Len(data.components) THEN Ok(acc)
    ELSE
      LET name == data.components[i].name
          component_data == data.components[i].data
          matched_types ==
              SelectSeq(COMPONENT_TYPES, LAMBDA t : t \in DOMAIN component_data)
          child == Append(self, name)
      IN IF Len(matched_types) # 1 THEN Err("Exception: charm or stack")
         ELSE IF matched_types[1] = "stack"
         THEN LET stack_uri == component_data.stack
                  is_local == StartsWith(stack_uri, ".") \/ Contains(stack_uri, "/")
                  loaded ==
                      IF is_local
                      THEN IF ~ValidPath(stack_uri)
                           THEN Err("Exception: Not stack.yaml found")
                           ELSE Ok(LoadStackYaml(stack_uri))
                      ELSE GetStack(stack_uri,
                                    Get(component_data, "channel", <<"stable">>))
              IN IF ~loaded.ok THEN loaded
                 ELSE IF is_local THEN StackOfDict(loaded.val, child)
                 ELSE LET built == BuildStack(loaded.val, child, depth - 1)
                      IN IF ~built.ok THEN built
                         ELSE LoadComponentsFrom(data, i + 1,
                                  Append(acc, [name |-> name, node |-> built.val]),
                                  self, depth)
         ELSE LoadComponentsFrom(data, i + 1,
                  Append(acc, [name |-> name, node |-> Charm(component_data, child)]),
                  self, depth)

\* Stack.__init__(stack_data, parent): the stack object at `self`, or the
\* exception; the interpreter raises RecursionError when no frame is left
BuildStack(stack_data, self, depth) ==
    IF depth = 0 THEN Err("RecursionError")
    ELSE
      LET c == LoadComponentsFrom(stack_data, 1, <<>>, self, depth)
      IN IF ~c.ok THEN c
         ELSE LET e == LoadEndpoints(stack_data, c.val, self)
              IN IF ~e.ok THEN e
                 ELSE LET r == LoadRelations(stack_data, c.val, self)
                      IN IF ~r.ok THEN r
                         ELSE Ok([kind |-> "stack",
                                  path |-> self,
                                  stack_name |-> stack_data.name,
                                  data |-> stack_data,
                                  components |-> c.val,
                                  provides |-> e.val.provides,
                                  requires |-> e.val.requires,
                                  relations |-> r.val])

\* ------------------------------------------------------------------ Config
EmptyDict == [k \in {} |-> <<>>]

\* truth value of a string or None
Truthy(v) == v # None /\ v # <<>>

\* Config.__init__
NewConfig(cfg, current_model) == cfg @@ ("current-model" :> current_model)

\* mutant: the default model is consulted before the override
GetModel_DefaultFirst(cfg, component_name) ==
    LET key == Replace(component_name, STACK_SEPARATOR, STACK_SEPARATOR_REPR)
        overrides == Get(cfg, "components", <<>>)
        k == IndexOfName(overrides, key)
        entry == IF k = 0 THEN EmptyDict ELSE overrides[k].data
        model == Get(entry, "model", None)
        default == Get(cfg, "default-model", None)
    IN IF Truthy(default) THEN default
       ELSE IF Truthy(model) THEN model
       ELSE cfg["current-model"]

\* Config.get_model
GetModel(cfg, component_name) ==
    LET key == Replace(component_name, STACK_SEPARATOR, STACK_SEPARATOR_REPR)
        overrides == Get(cfg, "components", <<>>)
        k == IndexOfName(overrides, key)
        entry == IF k = 0 THEN EmptyDict ELSE overrides[k].data
        model == Get(entry, "model", None)
        default == Get(cfg, "default-model", None)
    IN IF Truthy(model) THEN model
       ELSE IF Truthy(default) THEN default
       ELSE cfg["current-model"]

\* -------------------------------------------------------------- resources
\* Resource.__init__.  `origin` is not a field of the code's Resource: it
\* records which node the resource was produced for (the charm, or the stack
\* and the position of the relation in its list) so that properties can name
\* "the resources of a relation".
Resource(name, model, resource_type, create_command, origin) ==
    [name |-> name, model |-> model, type |-> resource_type,
     create_command |-> create_command, origin |-> origin]

\* the --config options of Stack.get_charm_resource
RECURSIVE ConfigOptions(_)
ConfigOptions(cfg) ==
    IF Len(cfg) = 0 THEN <<>>
    ELSE <<<<"--config">>, cfg[1].name \o <<"=">> \o cfg[1].value>>
         \o ConfigOptions(Tail(cfg))

\* Stack.get_charm_resource
GetCharmResource(charm, name, model) ==
    Resource(name, model, CHARM,
             <<<<"juju">>, <<"deploy">>, charm.uri, name, <<"-n">>,
               IntToStr(charm.units), <<"-m">>, model>>
             \o (IF Truthy(charm.channel)
                 THEN <<<<"--channel">>, charm.channel>> ELSE <<>>)
             \o (IF charm.trust THEN <<<<"--trust">>>> ELSE <<>>)
             \o ConfigOptions(charm.config),
             [node |-> charm.path, rel |-> 0])

\* Stack.get_relation_resource
GetRelationResource(provider_endpoint, requirer_endpoint, model, origin) ==
    Resource(None, model, RELATION,
             <<<<"juju">>, <<"relate">>, provider_endpoint, requirer_endpoint,
               <<"-m">>, model>>,
             origin)

\* Stack.get_offer_resource
GetOfferResource(endpoint, offer_name, model, origin) ==
    Resource(Replace(endpoint, <<":">>, <<"-">>), model, OFFER,
             <<<<"juju">>, <<"offer">>, endpoint, offer_name>>,
             origin)

\* mutant: the consumed offer is recorded under its URI
GetSaasResource_NamedByUri(offer_uri, saas_name, model, origin) ==
    Resource(offer_uri, model, SAAS,
             <<<<"juju">>, <<"consume">>, offer_uri, <<"-m">>, model>>,
             origin)

\* Stack.get_saas_resource
GetSaasResource(offer_uri, saas_name, model, origin) ==
    Resource(saas_name, model, SAAS,
             <<<<"juju">>, <<"consume">>, offer_uri, <<"-m">>, model>>,
             origin)

\* the endpoint reference of a relation side, lines 366-387 of get_plan
QualifiedEndpoint(instance_name, ep) ==
    IF ComponentName(ep.component) # <<>>
    THEN Join(<<instance_name, ComponentName(ep.component), ep.endpoint>>,
              STACK_SEPARATOR)
    ELSE Join(<<instance_name, ep.endpoint>>, STACK_SEPARATOR)

\* mutant: the Relate of a cross-domain relation is created in the
\* provider's model
RelationResources_RelateAtProvider(relation, instance_name, cfg, origin) ==
    LET provider_model == GetModel(cfg, ComponentName(relation.provider.component))
        requirer_model == GetModel(cfg, ComponentName(relation.requirer.component))
        provider_endpoint == QualifiedEndpoint(instance_name, relation.provider)
        requirer_endpoint == QualifiedEndpoint(instance_name, relation.requirer)
        offer_name == instance_name \o STACK_SEPARATOR
                      \o ComponentName(relation.provider.component)
                      \o STACK_SEPARATOR
                      \o Replace(relation.provider.endpoint, <<":">>, <<"-">>)
        offer_endpoint == provider_model \o <<".">> \o instance_name
                          \o STACK_SEPARATOR
                          \o ComponentName(relation.provider.component)
                          \o STACK_SEPARATOR \o relation.provider.endpoint
        offer_uri == provider_model \o <<".">> \o offer_name
    IN IF provider_model # requirer_model
       THEN <<GetOfferResource(offer_endpoint, offer_name, provider_model, origin),
              GetSaasResource(offer_uri, offer_name, requirer_model, origin),
              GetRelationResource(offer_name, requirer_endpoint, provider_model,
                                  origin)>>
       ELSE <<GetRelationResource(provider_endpoint, requirer_endpoint,
                                  requirer_model, origin)>>

\* the body of the relation loop of Stack.get_plan: the resources appended
\* for one relation
RelationResources(relation, instance_name, cfg, origin) ==
    LET provider_model == GetModel(cfg, ComponentName(relation.provider.component))
        requirer_model == GetModel(cfg, ComponentName(relation.requirer.component))
        provider_endpoint == QualifiedEndpoint(instance_name, relation.provider)
        requirer_endpoint == QualifiedEndpoint(instance_name, relation.requirer)
        offer_name == instance_name \o STACK_SEPARATOR
                      \o ComponentName(relation.provider.component)
                      \o STACK_SEPARATOR
                      \o Replace(relation.provider.endpoint, <<":">>, <<"-">>)
        offer_endpoint == provider_model \o <<".">> \o instance_name
                          \o STACK_SEPARATOR
                          \o ComponentName(relation.provider.component)
                          \o STACK_SEPARATOR \o relation.provider.endpoint
        offer_uri == provider_model \o <<".">> \o offer_name
    IN IF provider_model # requirer_model
       THEN <<GetOfferResource(offer_endpoint, offer_name, provider_model, origin),
              GetSaasResource(offer_uri, offer_name, requirer_model, origin),
              GetRelationResource(offer_name, requirer_endpoint, requirer_model,
                                  origin)>>
       ELSE <<GetRelationResource(provider_endpoint, requirer_endpoint,
                                  requirer_model, origin)>>

RECURSIVE GetPlan(_, _, _)
RECURSIVE ComponentsPlan(_, _, _, _)
RECURSIVE RelationsPlan(_, _, _, _)

\* mutant: each component's resources are put in front of the plan
ComponentsPlan_Prepends(self, i, instance_name, cfg) ==
    IF i > Len(self.components) THEN <<>>
    ELSE LET component == self.components[i].node
             deployment_name ==
                 Join(<<instance_name, ComponentName(component.path)>>,
                      STACK_SEPARATOR)
         IN ComponentsPlan(self, i + 1, instance_name, cfg)
            \o (IF component.kind = "stack"
                THEN GetPlan(component, instance_name, cfg)
                ELSE <<GetCharmResource(component, deployment_name,
                                        GetModel(cfg, ComponentName(self.path)))>>)

\* mutant: a charm is deployed to the model assigned to its own name
ComponentsPlan_OwnName(self, i, instance_name, cfg) ==
    IF i > Len(self.components) THEN <<>>
    ELSE LET component == self.components[i].node
             deployment_name ==
                 Join(<<instance_name, ComponentName(component.path)>>,
                      STACK_SEPARATOR)
         IN (IF component.kind = "stack"
             THEN GetPlan(component, instance_name, cfg)
             ELSE <<GetCharmResource(component, deployment_name,
                                     GetModel(cfg, ComponentName(component.path)))>>)
            \o ComponentsPlan(self, i + 1, instance_name, cfg)

\* the component loop of Stack.get_plan, from component i on
ComponentsPlan(self, i, instance_name, cfg) ==
    IF i > Len(self.components) THEN <<>>
    ELSE LET component == self.components[i].node
             deployment_name ==
                 Join(<<instance_name, ComponentName(component.path)>>,
                      STACK_SEPARATOR)
         IN (IF component.kind = "stack"
             THEN GetPlan(component, instance_name, cfg)
             ELSE <<GetCharmResource(component, deployment_name,
                                     GetModel(cfg, ComponentName(self.path)))>>)
            \o ComponentsPlan(self, i + 1, instance_name, cfg)

\* the relation loop of Stack.get_plan, from relation i on
RelationsPlan(self, i, instance_name, cfg) ==
    IF i > Len(self.relations) THEN <<>>
    ELSE RelationResources(self.relations[i], instance_name, cfg,
                           [node |-> self.path, rel |-> i])
         \o RelationsPlan(self, i + 1, instance_name, cfg)

\* mutant: the relation loop runs before the component loop
GetPlan_RelationsFirst(self, instance_name, cfg) ==
    RelationsPlan(self, 1, instance_name, cfg)
    \o ComponentsPlan(self, 1, instance_name, cfg)

\* mutant: the relation loop is missing
GetPlan_ComponentsOnly(self, instance_name, cfg) ==
    ComponentsPlan(self, 1, instance_name, cfg)

\* Stack.get_plan: the resources of the returned Plan
GetPlan(self, instance_name, cfg) ==
    ComponentsPlan(self, 1, instance_name, cfg)
    \o RelationsPlan(self, 1, instance_name, cfg)

\* Stack.__iter__, as run by dict(stack): the entry of every sub-stack in
\* the components of self.data is overwritten by the dict of that sub-stack
\* (data.copy() is shallow).  The result is the Stack object afterwards;
\* the dict produced is its `data`.
RECURSIVE StackIter(_)
StackIter(self) ==
    LET children == [i \in 1..Len(self.components) |->
                        IF self.components[i].node.kind = "stack"
                        THEN [name |-> self.components[i].name,
                              node |-> StackIter(self.components[i].node)]
                        ELSE self.components[i]]
        entries == [i \in 1..Len(self.data.components) |->
                        IF "stack" \in DOMAIN self.data.components[i].data
                        THEN [name |-> self.data.components[i].name,
                              data |-> children[i].node.data]
                        ELSE self.data.components[i]]
    IN [self EXCEPT !.components = children, !.data.components = entries]

\* ------------------------------------------------------------------- Plan
\* the entry Plan.deploy creates for a model it has not seen
NewModelInfo == [charms |-> <<>>, saas |-> <<>>, offers |-> <<>>]

\* mutant: only charms are recorded
RecordResource_CharmsOnly(inf, resource) ==
    LET model == resource.model
        known == IF model \in DOMAIN inf THEN inf ELSE inf @@ (model :> NewModelInfo)
    IN IF resource.type = CHARM
       THEN [known EXCEPT ![model][resource.type] = Append(@, resource.name)]
       ELSE known

\* mutant: a Relate is recorded too, among the charms of its model
RecordResource_RelatesToo(inf, resource) ==
    LET model == resource.model
        known == IF model \in DOMAIN inf THEN inf ELSE inf @@ (model :> NewModelInfo)
        key == IF resource.type = RELATION THEN CHARM ELSE resource.type
    IN [known EXCEPT ![model][key] = Append(@, resource.name)]

\* lines 106-114 of Plan.deploy: the bookkeeping after resource.create()
RecordResource(inf, resource) ==
    LET model == resource.model
        known == IF model \in DOMAIN inf THEN inf ELSE inf @@ (model :> NewModelInfo)
    IN IF resource.type # RELATION
       THEN [known EXCEPT ![model][resource.type] = Append(@, resource.name)]
       ELSE known

NoRuns(n) == [i \in 1..n |-> [n |-> 0, ok |-> 0]]

\* mutant: the loop steps over the resource that follows
CreateRun_SkipsNext ==
    /\ pc = "deploying"
    /\ ~created[idx]
    /\ runs' = [runs EXCEPT ![idx] = [n |-> @.n + 1, ok |-> @.ok + 1]]
    /\ created' = [created EXCEPT ![idx] = TRUE]
    /\ calls' = Append(calls, idx)
    /\ info' = RecordResource(info, resources[idx])
    /\ idx' = idx + 2
    /\ pc' = IF idx + 2 > Len(resources) THEN "deploy_returned" ELSE "deploying"
    /\ UNCHANGED <<removed, last, files, hub, config, instances, arg, stack, error, resources,
                   executions, output>>

\* Resource.create on a resource not yet created, whose command succeeds;
\* then the rest of the loop body of Plan.deploy
CreateRun ==
    /\ pc = "deploying"
    /\ ~created[idx]
    /\ runs' = [runs EXCEPT ![idx] = [n |-> @.n + 1, ok |-> @.ok + 1]]
    /\ created' = [created EXCEPT ![idx] = TRUE]
    /\ calls' = Append(calls, idx)
    /\ info' = RecordResource(info, resources[idx])
    /\ idx' = idx + 1
    /\ pc' = IF idx + 1 > Len(resources) THEN "deploy_returned" ELSE "deploying"
    /\ UNCHANGED <<removed, last, files, hub, config, instances, arg, stack, error, resources,
                   executions, output>>

\* Resource.create on a resource not yet created, whose command fails:
\* subprocess.run raises CalledProcessError, which leaves Plan.deploy
CreateFail ==
    /\ pc = "deploying"
    /\ ~created[idx]
    /\ runs' = [runs EXCEPT ![idx] = [n |-> @.n + 1, ok |-> @.ok]]
    /\ calls' = Append(calls, idx)
    /\ error' = "CalledProcessError"
    /\ pc' = "deploy_raised"
    /\ UNCHANGED <<removed, last, files, hub, config, instances, arg, stack, resources, created,
                   info, idx, executions, output>>

\* mutant: create does not look at `created`
CreateNoop_RunsAgain ==
    /\ pc = "deploying"
    /\ created[idx]
    /\ runs' = [runs EXCEPT ![idx] = [n |-> @.n + 1, ok |-> @.ok + 1]]
    /\ calls' = Append(calls, idx)
    /\ info' = RecordResource(info, resources[idx])
    /\ idx' = idx + 1
    /\ pc' = IF idx + 1 > Len(resources) THEN "deploy_returned" ELSE "deploying"
    /\ UNCHANGED <<removed, last, files, hub, config, instances, arg, stack, error, resources,
                   created, executions, output>>

\* Resource.create on a resource already created: no command is run; then
\* the rest of the loop body of Plan.deploy
CreateNoop ==
    /\ pc = "deploying"
    /\ created[idx]
    /\ calls' = Append(calls, idx)
    /\ info' = RecordResource(info, resources[idx])
    /\ idx' = idx + 1
    /\ pc' = IF idx + 1 > Len(resources) THEN "deploy_returned" ELSE "deploying"
    /\ UNCHANGED <<removed, last, files, hub, config, instances, arg, stack, error, resources,
                   created, runs, executions, output>>

\* ------------------------------------------------- the command line: deploy
StackUri == Path("shop")
Channel == <<"stable">>

\* lines 73-85 of cli/juju.py deploy: the root spec
CliStackData(stack_uri, channel) ==
    IF StartsWith(stack_uri, ".") \/ Contains(stack_uri, "/")
    THEN IF ~ValidPath(stack_uri) THEN Err("Exception: Not stack.yaml found")
         ELSE Ok(LoadStackYaml(stack_uri))
    ELSE IF ~Contains(CHARMHUB_CHANNELS, channel[1])
         THEN Err("Exception: channel is not valid")
         ELSE LET active == IsChannelActive(stack_uri, channel)
              IN IF ~active.ok THEN active
                 ELSE IF ~active.val THEN Err("Exception: no published stack")
                 ELSE GetStack(stack_uri, channel)

\* line 87 of cli/juju.py
CliInstanceName == IF Truthy(arg) THEN arg ELSE StackUri

\* files.instance_exists
InstanceExists(name) == name \in DOMAIN instances

\* cli/juju.py deploy, up to the call of juju.deploy_stack: load the root
\* spec, refuse an existing instance name, build the tree, dict(stack)
CliDeploy ==
    /\ pc = "start"
    /\ LET stack_data == CliStackData(StackUri, Channel)
           built == BuildStack(stack_data.val, <<>>, RecursionLimit)
       IN IF ~stack_data.ok
          THEN /\ pc' = "raised"
               /\ error' = stack_data.err
               /\ UNCHANGED <<stack, output>>
          ELSE IF InstanceExists(CliInstanceName)
          THEN /\ pc' = "returned"
               /\ output' = Append(output, "A stack instance with the name already exists")
               /\ UNCHANGED <<stack, error>>
          ELSE IF ~built.ok
          THEN /\ pc' = "raised"
               /\ error' = built.err
               /\ UNCHANGED <<stack, output>>
          ELSE /\ pc' = "built"
               /\ stack' = StackIter(built.val)
               /\ UNCHANGED <<error, output>>
    /\ UNCHANGED <<removed, last, files, hub, config, instances, arg, resources, created, info,
                   idx, executions, calls, runs>>

\* juju.deploy_stack, lines 49-54: the instance name, the plan, and the call
\* of plan.deploy()
DeployStackBegin ==
    /\ pc = "built"
    /\ LET instance_name == IF ~Truthy(CliInstanceName) THEN stack.stack_name
                            ELSE CliInstanceName
           plan == GetPlan(stack, instance_name, NewConfig(config, CurrentModel))
       IN /\ resources' = plan
          /\ created' = [i \in 1..Len(plan) |-> FALSE]
          /\ runs' = NoRuns(Len(plan))
          /\ pc' = IF Len(plan) = 0 THEN "deploy_returned" ELSE "deploying"
    /\ info' = EmptyDict
    /\ idx' = 1
    /\ executions' = 1
    /\ calls' = <<>>
    /\ UNCHANGED <<removed, last, files, hub, config, instances, arg, stack, error, output>>

\* juju.deploy_stack, lines 55-56: the exception of plan.deploy() is caught
\* and printed
DeployStackExcept ==
    /\ pc = "deploy_raised"
    /\ output' = Append(output, "deployent failed")
    /\ error' = ""
    /\ pc' = "finally"
    /\ UNCHANGED <<removed, last, files, hub, config, instances, arg, stack, resources, created,
                   info, idx, executions, calls, runs>>

\* juju.deploy_stack, lines 57-60: register_instance is called with the
\* inventory, dict(stack) and dict(config); utils.register_instance hands its
\* five arguments to files.write_new_instance_in_file, which takes three, so
\* the call raises TypeError before the instance file is touched, and the
\* exception leaves deploy_stack and the command
DeployStackFinally ==
    /\ pc \in {"finally", "deploy_returned"}
    /\ stack' = StackIter(stack)
    /\ error' = "TypeError"
    /\ pc' = "raised"
    /\ UNCHANGED <<removed, last, files, hub, config, instances, arg, resources, created, info,
                   idx, executions, calls, runs, output>>

\* ------------------------------------------------ the command line: destroy
\* Plan.info() after Plan.deploy has gone over the resources rs once
RECURSIVE DeployedInfo(_, _)
DeployedInfo(rs, inf) ==
    IF Len(rs) = 0 THEN inf
    ELSE DeployedInfo(Tail(rs), RecordResource(inf, rs[1]))

\* the model names in use, in the order of their characters: yaml.dump
\* writes the keys of a dict sorted, so this is the order in which a record
\* read back from the instance file yields its models
ModelOrder == <<<<"cur">>, <<"m1">>, <<"m2">>, <<"m3">>, <<"m9">>>>
ModelsOf(inventory) == SelectSeq(ModelOrder, LAMBDA m : m \in DOMAIN inventory)

\* one loop of destroy_stack over the models: the commands for the entries
\* of the list `t` of every model
RECURSIVE RemoveCommands(_, _, _)
RemoveCommands(inventory, models, t) ==
    IF Len(models) = 0 THEN <<>>
    ELSE [i \in 1..Len(inventory[models[1]][t]) |->
              [type |-> t, name |-> inventory[models[1]][t][i], model |-> models[1]]]
         \o RemoveCommands(inventory, Tail(models), t)

\* mutant: one loop over the models that removes, model by model, the
\* consumed offers, the offers and the applications
RECURSIVE DestroyCommands_ModelByModel(_)
DestroyCommands_ModelByModel(inventory) ==
    IF DOMAIN inventory = {} THEN <<>>
    ELSE LET m == ModelsOf(inventory)[1]
             rest == [k \in DOMAIN inventory \ {m} |-> inventory[k]]
         IN RemoveCommands(inventory, <<m>>, SAAS)
            \o RemoveCommands(inventory, <<m>>, OFFER)
            \o RemoveCommands(inventory, <<m>>, CHARM)
            \o DestroyCommands_ModelByModel(rest)

\* destroy_stack: the commands of its three loops, in the order it runs them
DestroyCommands(inventory) ==
    RemoveCommands(inventory, ModelsOf(inventory), SAAS)
    \o RemoveCommands(inventory, ModelsOf(inventory), OFFER)
    \o RemoveCommands(inventory, ModelsOf(inventory), CHARM)

\* cli/juju.py destroy, up to the first command of juju.destroy_stack
CliDestroy ==
    /\ pc = "start"
    /\ IF arg \notin DOMAIN instances
       THEN /\ output' = Append(output, "Stack instance does not exist")
            /\ pc' = "returned"
       ELSE /\ pc' = IF Len(DestroyCommands(instances[arg].resources)) = 0
                     THEN "destroyed" ELSE "removing"
            /\ UNCHANGED output
    /\ idx' = 1
    /\ removed' = <<>>
    /\ UNCHANGED <<last, files, hub, config, instances, arg, stack, error,
                   resources, created, info, executions, calls, runs>>

\* one subprocess.run of destroy_stack that succeeds
RemoveRun ==
    /\ pc = "removing"
    /\ LET commands == DestroyCommands(instances[arg].resources)
       IN /\ removed' = Append(removed, [command |-> commands[idx], ok |-> TRUE])
          /\ pc' = IF idx + 1 > Len(commands) THEN "destroyed" ELSE "removing"
    /\ idx' = idx + 1
    /\ UNCHANGED <<last, files, hub, config, instances, arg, stack, error,
                   resources, created, info, executions, calls, runs, output>>

\* one subprocess.run of destroy_stack that fails: CalledProcessError leaves
\* destroy_stack and the command
RemoveFail ==
    /\ pc = "removing"
    /\ LET commands == DestroyCommands(instances[arg].resources)
       IN removed' = Append(removed, [command |-> commands[idx], ok |-> FALSE])
    /\ error' = "CalledProcessError"
    /\ pc' = "raised"
    /\ UNCHANGED <<last, files, hub, config, instances, arg, stack, idx,
                   resources, created, info, executions, calls, runs, output>>

\* cli/juju.py destroy after destroy_stack returned: files.remove_instance
DestroyFinish ==
    /\ pc = "destroyed"
    /\ instances' = [n \in DOMAIN instances \ {arg} |-> instances[n]]
    /\ output' = Append(output, "Removing stack")
    /\ pc' = "returned"
    /\ UNCHANGED <<removed, last, files, hub, config, arg, stack, error, idx,
                   resources, created, info, executions, calls, runs>>

\* ------------------------------------- the command line: charmcraft-stack
\* a registry command as `last` keeps it: the operation, the name or path
\* it was given, the revision and channel arguments, and its outcome
Command(op, name, revision, channel, result) ==
    [op |-> op, name |-> name, revision |-> revision, channel |-> channel,
     result |-> result]

\* charmcraft-stack register <name>
HubRegister ==
    /\ \E name \in HubNames :
         LET o == Register(name)
         IN /\ hub' = o.hub
            /\ last' = Command("register", name, NoRevision, <<>>, o.result)
    /\ UNCHANGED <<removed, files, config, instances, arg, pc, stack, error,
                   resources, created, info, idx, executions, calls, runs, output>>

\* charmcraft-stack unregister <name>
HubUnregister ==
    /\ \E name \in HubNames :
         LET o == Unregister(name)
         IN /\ hub' = o.hub
            /\ last' = Command("unregister", name, NoRevision, <<>>, o.result)
    /\ UNCHANGED <<removed, files, config, instances, arg, pc, stack, error,
                   resources, created, info, idx, executions, calls, runs, output>>

\* charmcraft-stack upload <stack_path>
HubUpload ==
    /\ \E stack_path \in UploadPaths :
         LET o == Upload(stack_path)
         IN /\ \A n \in DOMAIN o.hub : o.hub[n].latest < MaxRevisions
            /\ hub' = o.hub
            /\ last' = Command("upload", stack_path, NoRevision, <<>>, o.result)
    /\ UNCHANGED <<removed, files, config, instances, arg, pc, stack, error,
                   resources, created, info, idx, executions, calls, runs, output>>

\* CharmHub.release called with an int revision or none
ApiRelease ==
    /\ \E name \in HubNames, channel \in ReleaseChannels,
          revision \in {NoRevision} \cup { IntRevision(n) : n \in 0..MaxRevisions } :
         LET o == Release(name, revision, channel)
         IN /\ hub' = o.hub
            /\ last' = Command("release", name, revision, channel, o.result)
    /\ UNCHANGED <<removed, files, config, instances, arg, pc, stack, error,
                   resources, created, info, idx, executions, calls, runs, output>>

\* charmcraft-stack release <name> [--revision <text>] [--channel <text>]:
\* an option that is given is passed on as the text it was given as
CliRelease ==
    /\ \E name \in HubNames,
          channel_option \in { <<>>, <<"candidate">> },
          revision_option \in {NoRevision} \cup { StrRevision(n) : n \in 0..1 } :
         LET channel == IF channel_option = <<>> THEN <<"stable">> ELSE channel_option
             o == Release(name, revision_option, channel)
         IN /\ hub' = o.hub
            /\ last' = Command("release", name, revision_option, channel, o.result)
    /\ UNCHANGED <<removed, files, config, instances, arg, pc, stack, error,
                   resources, created, info, idx, executions, calls, runs, output>>

\* Stack(CharmHub.get_stack(name, channel)): a tree is built from what a
\* channel of the registry serves
HubBuild ==
    /\ \E name \in HubNames, channel \in { <<"stable">>, <<"candidate">> } :
         LET stack_data == GetStack(name, channel)
             built == IF stack_data.ok
                      THEN BuildStack(stack_data.val, <<>>, RecursionLimit)
                      ELSE stack_data
         IN last' = Command("build", name, NoRevision, channel,
                            IF built.ok THEN Ok(<<>>) ELSE Err(built.err))
    /\ UNCHANGED <<removed, files, hub, config, instances, arg, pc, stack, error,
                   resources, created, info, idx, executions, calls, runs, output>>

\* --------------------------------------------------------- specifications
NoStack == <<>>

Init ==
    /\ \E w \in Worlds : files = w.files /\ hub = w.hub
    /\ config \in Configs
    /\ arg \in InstanceNames
    /\ instances \in {NoInstances, OldInstances}
    /\ pc = "start"
    /\ stack = NoStack
    /\ error = ""
    /\ resources = <<>>
    /\ created = <<>>
    /\ info = EmptyDict
    /\ idx = 0
    /\ executions = 0
    /\ calls = <<>>
    /\ runs = <<>>
    /\ output = <<>>
    /\ removed = <<>>
    /\ last = NoCommand

Next ==
    \/ CliDeploy
    \/ DeployStackBegin
    \/ CreateRun
    \/ CreateFail
    \/ DeployStackExcept
    \/ DeployStackFinally

\* one run of `juju-stack deploy`
Spec == Init /\ [][Next]_vars

\* ------------------------------------------- the library, driven by a caller
\* Stack(StackData(...)) on the root spec
ApiBuild ==
    /\ pc = "start"
    /\ LET built == BuildStack(LoadStackYaml(StackUri), <<>>, RecursionLimit)
       IN IF built.ok
          THEN /\ stack' = built.val
               /\ pc' = "built"
               /\ UNCHANGED error
          ELSE /\ error' = built.err
               /\ pc' = "raised"
               /\ UNCHANGED stack
    /\ UNCHANGED <<removed, last, files, hub, config, instances, arg, resources, created, info,
                   idx, executions, calls, runs, output>>

\* plan = stack.get_plan(instance_name, config)
ApiGetPlan ==
    /\ pc = "built"
    /\ LET instance_name == IF Truthy(arg) THEN arg ELSE stack.stack_name
           plan == GetPlan(stack, instance_name, NewConfig(config, CurrentModel))
       IN /\ resources' = plan
          /\ created' = [i \in 1..Len(plan) |-> FALSE]
          /\ runs' = NoRuns(Len(plan))
    /\ info' = EmptyDict
    /\ pc' = "planned"
    /\ UNCHANGED <<removed, last, files, hub, config, instances, arg, stack, error, idx,
                   executions, calls, output>>

\* plan.deploy() is invoked: for the first time, again after it returned, or
\* again after it raised
PlanDeploy ==
    /\ pc \in {"planned", "deploy_raised", "deploy_returned"}
    /\ executions < MaxExecutions
    /\ executions' = executions + 1
    /\ idx' = 1
    /\ calls' = <<>>
    /\ error' = ""
    /\ pc' = IF Len(resources) = 0 THEN "deploy_returned" ELSE "deploying"
    /\ UNCHANGED <<removed, last, files, hub, config, instances, arg, stack, resources, created,
                   info, runs, output>>

InitPlan == Init /\ instances = NoInstances

NextPlan ==
    \/ ApiBuild
    \/ ApiGetPlan
    \/ PlanDeploy
    \/ CreateRun
    \/ CreateFail
    \/ CreateNoop

\* a caller of the library that executes one plan up to MaxExecutions times
SpecPlan == InitPlan /\ [][NextPlan]_vars

\* ---------------------------------------------- one run of `juju-stack destroy`
\* the stacks whose instances are destroyed
DestroyWorlds ==
    { World(FilesOf1(s), RegistryOf(PlainFrontend, PlainInner)) :
        s \in ShopSpecs \cup {FanOutShop} }

\* the instance file holds the record of the instance "prod": the inventory
\* of a Plan.deploy that got through the first n resources of its plan
InitDestroy ==
    /\ \E w \in DestroyWorlds : files = w.files /\ hub = w.hub
    /\ config \in Configs
    /\ arg \in { <<"prod">>, <<"test">> }
    /\ LET root == LoadStackYaml(StackUri)
           plan == GetPlan(BuildStack(root, <<>>, RecursionLimit).val, <<"prod">>,
                           NewConfig(config, CurrentModel))
       IN \E n \in 0..Len(plan) :
            instances = (<<"prod">> :>
                InstanceRecord(root.name, DeployedInfo(SubSeq(plan, 1, n), EmptyDict)))
    /\ pc = "start"
    /\ stack = NoStack
    /\ error = ""
    /\ resources = <<>>
    /\ created = <<>>
    /\ info = EmptyDict
    /\ idx = 0
    /\ executions = 0
    /\ calls = <<>>
    /\ runs = <<>>
    /\ output = <<>>
    /\ removed = <<>>
    /\ last = NoCommand

NextDestroy ==
    \/ CliDestroy
    \/ RemoveRun
    \/ RemoveFail
    \/ DestroyFinish

SpecDestroy == InitDestroy /\ [][NextDestroy]_vars

\* ---------------------------------------- the registry, driven by commands
\* the registry file as CharmHub.initialize leaves it
InitHub ==
    /\ files = HubFiles
    /\ hub = EmptyRegistry
    /\ config = ConfigOf(<<>>, NoDefault)
    /\ arg = <<>>
    /\ instances = NoInstances
    /\ pc = "start"
    /\ stack = NoStack
    /\ error = ""
    /\ resources = <<>>
    /\ created = <<>>
    /\ info = EmptyDict
    /\ idx = 0
    /\ executions = 0
    /\ calls = <<>>
    /\ runs = <<>>
    /\ output = <<>>
    /\ removed = <<>>
    /\ last = NoCommand

NextHub ==
    \/ HubRegister
    \/ HubUnregister
    \/ HubUpload
    \/ ApiRelease
    \/ CliRelease
    \/ HubBuild

\* any sequence of registry commands, and trees built from the registry
SpecHub == InitHub /\ [][NextHub]_vars

\* ------------------------------------------------- vocabulary of the claims
\* a plan has been compiled
Compiled == pc = "planned" \/ executions > 0

\* the Config object the plan is compiled with
Cfg == NewConfig(config, CurrentModel)

\* the stack nodes of a tree, and the paths of the charms of a subtree
RECURSIVE StackNodes(_)
StackNodes(node) ==
    {node} \cup UNION { StackNodes(node.components[i].node) :
                          i \in { j \in 1..Len(node.components) :
                                    node.components[j].node.kind = "stack" } }

RECURSIVE CharmPaths(_)
CharmPaths(node) ==
    IF node.kind = "charm" THEN {node.path}
    ELSE UNION { CharmPaths(node.components[i].node) : i \in 1..Len(node.components) }

\* the charms of a subtree, depth first in declaration order
RECURSIVE CharmsInTreeOrder(_)
RECURSIVE CharmsInTreeOrderFrom(_, _)
CharmsInTreeOrderFrom(node, i) ==
    IF i > Len(node.components) THEN <<>>
    ELSE CharmsInTreeOrder(node.components[i].node) \o CharmsInTreeOrderFrom(node, i + 1)
CharmsInTreeOrder(node) ==
    IF node.kind = "charm" THEN <<node.path>> ELSE CharmsInTreeOrderFrom(node, 1)

\* the number of relations declared in a subtree
RECURSIVE CountRelations(_)
RECURSIVE CountRelationsFrom(_, _)
CountRelationsFrom(node, i) ==
    IF i > Len(node.components) THEN 0
    ELSE CountRelations(node.components[i].node) + CountRelationsFrom(node, i + 1)
CountRelations(node) ==
    IF node.kind = "charm" THEN 0
    ELSE Len(node.relations) + CountRelationsFrom(node, 1)

\* the two endpoints of a relation are assigned different models
CrossDomain(relation) ==
    GetModel(Cfg, ComponentName(relation.provider.component))
        # GetModel(Cfg, ComponentName(relation.requirer.component))

\* the charm an endpoint belongs to
EndpointCharm(ep) == Append(ep.component, Split(ep.endpoint, ":")[1])

IsRelationResource(r) == r.type \in {RELATION, OFFER, SAAS}

\* positions of the resources produced for relation i of the stack at `path`
PositionsOf(path, i) ==
    { k \in 1..Len(resources) : resources[k].origin = [node |-> path, rel |-> i] }

\* positions of the Deploy resources of the charm at `path`
DeployPositions(path) ==
    { k \in 1..Len(resources) :
        resources[k].type = CHARM /\ resources[k].origin.node = path }

PositionsOfType(t) == { k \in 1..Len(resources) : resources[k].type = t }

\* ------------------------------------------------------------------ claims
\* C1: for every relation whose provider and requirer models differ, the plan
\* holds exactly three resources for it, at consecutive positions: one Offer,
\* then one Consume, then one Relate, and the provider reference of the
\* Relate command is the alias (name) of the Consume.
C1_OfferConsumeRelate ==
    Compiled =>
      \A S \in StackNodes(stack) : \A i \in 1..Len(S.relations) :
        CrossDomain(S.relations[i]) =>
          LET P == PositionsOf(S.path, i)
          IN /\ Cardinality(P) = 3
             /\ \E k \in P :
                  /\ P = {k, k + 1, k + 2}
                  /\ resources[k].type = OFFER
                  /\ resources[k + 1].type = SAAS
                  /\ resources[k + 2].type = RELATION
                  /\ resources[k + 2].create_command[3] = resources[k + 1].name
                  /\ resources[k + 1].name = resources[k].create_command[4]

\* a plan holding the triple of a cross-domain relation declared by a nested
\* stack and the triple of one declared by the root
C1_Witness ==
    /\ Compiled
    /\ \E k \in PositionsOfType(OFFER) : resources[k].origin.node # <<>>
    /\ \E k \in PositionsOfType(OFFER) : resources[k].origin.node = <<>>

\* C2: every resource of a relation declared at stack S comes after the
\* Deploy of every charm of the subtree of S, and the charms the two
\* endpoints of the relation resolve to are charms of that subtree.
C2_RelationsAfterSubtreeDeploys ==
    Compiled =>
      \A S \in StackNodes(stack) : \A i \in 1..Len(S.relations) :
        /\ PositionsOf(S.path, i) # {}
        /\ EndpointCharm(S.relations[i].provider) \in CharmPaths(S)
        /\ EndpointCharm(S.relations[i].requirer) \in CharmPaths(S)
        /\ \A k \in PositionsOf(S.path, i) : \A c \in CharmPaths(S) :
             /\ DeployPositions(c) # {}
             /\ \A d \in DeployPositions(c) : d < k

\* a plan with a relation of a nested stack whose subtree holds two charms,
\* and a relation of the root that reaches a charm two levels down
C2_Witness ==
    /\ Compiled
    /\ \E S \in StackNodes(stack) :
         /\ S.path # <<>>
         /\ Len(S.relations) > 0
         /\ Cardinality(CharmPaths(S)) >= 2
    /\ \E i \in 1..Len(stack.relations) :
         Len(EndpointCharm(stack.relations[i].requirer)) = 3

\* C3 as stated: no Deploy resource comes after a Relate, Offer or Consume
\* resource.
C3_AllRelationsLast ==
    Compiled =>
      \A i, j \in 1..Len(resources) :
        (i < j /\ IsRelationResource(resources[i])) => resources[j].type # CHARM

\* C3, amended: the Deploy resources appear in tree order, and the resources
\* of the relations declared by the root stack come last: after one of them
\* only relation resources of the root follow.
C3_DeploysInTreeOrderRootRelationsLast ==
    Compiled =>
      /\ LET deploys == SelectSeq(resources, LAMBDA r : r.type = CHARM)
         IN [k \in 1..Len(deploys) |-> deploys[k].origin.node]
                = CharmsInTreeOrder(stack)
      /\ \A i, j \in 1..Len(resources) :
           (i < j /\ IsRelationResource(resources[i])
                  /\ resources[i].origin.node = <<>>)
             => (IsRelationResource(resources[j])
                   /\ resources[j].origin.node = <<>>)

\* a plan in which a nested stack that declares a relation is followed by a
\* sibling charm, under a root that declares a relation
C3_Witness ==
    /\ Compiled
    /\ Len(stack.relations) > 0
    /\ \E i, j \in 1..Len(resources) :
         /\ i < j
         /\ IsRelationResource(resources[i])
         /\ resources[j].type = CHARM

\* C4: when no relation of the tree is cross-domain, the plan holds as many
\* Deploy resources as the tree has charms, as many Relate resources as the
\* tree declares relations, and no Offer or Consume resource.
C4_Counts ==
    (/\ Compiled
     /\ \A S \in StackNodes(stack) : \A i \in 1..Len(S.relations) :
          ~CrossDomain(S.relations[i]))
      => /\ Cardinality(PositionsOfType(CHARM)) = Cardinality(CharmPaths(stack))
         /\ Cardinality(PositionsOfType(RELATION)) = CountRelations(stack)
         /\ PositionsOfType(OFFER) = {}
         /\ PositionsOfType(SAAS) = {}

\* a three-level tree of five charms and four relations in a single model
C4_Witness ==
    /\ Compiled
    /\ \A S \in StackNodes(stack) : \A i \in 1..Len(S.relations) :
         ~CrossDomain(S.relations[i])
    /\ Cardinality(CharmPaths(stack)) = 5
    /\ CountRelations(stack) = 4
    /\ Cardinality(StackNodes(stack)) = 3

\* C5: within one Plan.deploy, create is invoked on positions 1, 2, 3, ... in
\* that order, each once, none skipped; every position before the one being
\* attempted has been created; a Plan.deploy that returns has invoked create
\* on every resource.
C5_CreateInPlanOrder ==
    /\ calls = [j \in 1..Len(calls) |-> j]
    /\ \A j \in 1..Len(calls) : \A k \in 1..(j - 1) : created[k]
    /\ pc = "deploying" => idx = Len(calls) + 1
    /\ pc = "deploy_returned" => Len(calls) = Len(resources)

\* a second execution that ran to the end of a plan of at least five
\* resources, after a first one that failed part of the way
C5_Witness ==
    /\ pc = "deploy_returned"
    /\ executions = 2
    /\ Len(resources) >= 5
    /\ \E i \in 3..Len(resources) : runs[i].n = 2

\* C6: the create command of a resource succeeds at most once, and the
\* resource is created exactly when it has; once a resource is created it
\* stays created and no step runs its command again; a step in which the
\* command fails leaves the resource not created.
C6_CreateIdempotent ==
    [][ /\ \A i \in 1..Len(resources') :
             /\ runs'[i].ok <= 1
             /\ created'[i] <=> runs'[i].ok = 1
        /\ \A i \in 1..Len(resources) :
             /\ created[i] => (created'[i] /\ runs'[i] = runs[i])
             /\ (runs'[i].n > runs[i].n /\ runs'[i].ok = runs[i].ok)
                  => ~created'[i]
      ]_vars

\* a resource whose command failed in the first execution and succeeded in
\* the second, which first went over the resources created before
C6_Witness ==
    /\ executions = 2
    /\ \E i \in 2..Len(resources) :
         /\ runs[i].n = 2
         /\ runs[i].ok = 1
         /\ created[i]
         /\ Len(calls) >= i
         /\ \A j \in 1..(i - 1) : runs[j].n = 1

\* the inventory Plan.info() is to hold for the resources rs: per model, the
\* names of the Deploy, Consume and Offer resources, in plan order
NamesOf(rs, model, t) ==
    LET sel == SelectSeq(rs, LAMBDA r : r.model = model /\ r.type = t)
    IN [i \in 1..Len(sel) |-> sel[i].name]
InventoryOf(rs) ==
    [m \in {rs[i].model : i \in 1..Len(rs)} |->
        [charms |-> NamesOf(rs, m, CHARM),
         saas |-> NamesOf(rs, m, SAAS),
         offers |-> NamesOf(rs, m, OFFER)]]

\* C7: when create fails at position k in the first Plan.deploy, create has
\* been invoked on positions 1..k only, no command of a later position has
\* run, and Plan.info() is the inventory of positions 1..k-1.
C7_FailureKeepsPrefix ==
    (pc = "deploy_raised" /\ executions = 1) =>
      /\ calls = [j \in 1..idx |-> j]
      /\ ~created[idx]
      /\ \A j \in (idx + 1)..Len(resources) : runs[j].n = 0 /\ ~created[j]
      /\ \A j \in 1..(idx - 1) : created[j]
      /\ info = InventoryOf(SubSeq(resources, 1, idx - 1))

\* a first execution that fails after an Offer, a Consume and a Relate
C7_Witness ==
    /\ pc = "deploy_raised"
    /\ executions = 1
    /\ \E i, j, k \in 1..(idx - 1) :
         /\ resources[i].type = OFFER
         /\ resources[j].type = SAAS
         /\ resources[k].type = RELATION
    /\ idx < Len(resources)

\* C8 as stated: once a create command has failed, the exception that leaves
\* deploy_stack is that failure.
C8_FailureSurfaced ==
    (/\ pc \in {"raised", "returned"}
     /\ \E i \in 1..Len(resources) : runs[i].n > runs[i].ok)
      => error = "CalledProcessError"

\* C9 as stated: building never exhausts the interpreter's recursion limit; a
\* reference back to an ancestor's spec is rejected before.
C9_CycleRejected ==
    ~(pc = "raised" /\ error = "RecursionError")

\* the charm and the endpoint name a declared reference leads to, following
\* the forward declarations of the specs level by level
RECURSIVE DeclaredTarget(_, _, _)
DeclaredTarget(S, reference, side) ==
    LET parts == Split(reference, ":")
        child == S.components[IndexOfName(S.components, parts[1])].node
    IN IF child.kind = "charm"
       THEN [charm |-> child.path, endpoint_name |-> parts[2]]
       ELSE DeclaredTarget(
                child,
                child.data[side][IndexOfName(child.data[side], parts[2])].forward,
                side)

\* "<Deploy name of the charm>:<endpoint name>" of a declared reference
DeployedEndpoint(S, reference, side) ==
    LET t == DeclaredTarget(S, reference, side)
    IN { resources[d].name \o <<":">> \o t.endpoint_name :
           d \in DeployPositions(t.charm) }

\* C10: every endpoint a stack exposes is owned by the stack that directly
\* contains the charm its chain of forwards ends at, with local reference
\* "charm:endpoint", and the requirer reference of every Relate, and its
\* provider reference when the relation is not cross-domain, is the Deploy
\* name of that charm followed by ":" and the endpoint name.
C10_ForwardsResolveToCharms ==
    Compiled =>
      \A S \in StackNodes(stack) :
        /\ \A side \in {"provides", "requires"} : \A i \in 1..Len(S[side]) :
             LET t == DeclaredTarget(S, S.data[side][i].forward, side)
             IN /\ S[side][i].ep.component = SubSeq(t.charm, 1, Len(t.charm) - 1)
                /\ S[side][i].ep.endpoint
                     = t.charm[Len(t.charm)] \o <<":">> \o t.endpoint_name
        /\ \A i \in 1..Len(S.relations) :
             \E k \in PositionsOf(S.path, i) :
               /\ resources[k].type = RELATION
               /\ DeployedEndpoint(S, S.data.relations[i].requirer, "requires")
                    = {resources[k].create_command[4]}
               /\ ~CrossDomain(S.relations[i]) =>
                    DeployedEndpoint(S, S.data.relations[i].provider, "provides")
                      = {resources[k].create_command[3]}

\* a root relation, not cross-domain, whose two sides each go through two
\* levels of forwards
C10_Witness ==
    /\ Compiled
    /\ \E i \in 1..Len(stack.relations) :
         /\ Len(EndpointCharm(stack.relations[i].provider)) = 3
         /\ ~CrossDomain(stack.relations[i])
    /\ \E i \in 1..Len(stack.relations) :
         /\ Len(EndpointCharm(stack.relations[i].requirer)) = 3
         /\ ~CrossDomain(stack.relations[i])

\* ------------------------------------------------------- claims: building
\* the keys of an ordered dict
Names(entries) == { entries[i].name : i \in 1..Len(entries) }

\* the keys `charm` and `stack` a component entry carries
TypeKeys(component_data) == DOMAIN component_data \cap {"stack", "charm"}

IsLocalPath(stack_uri) == StartsWith(stack_uri, ".") \/ Contains(stack_uri, "/")

\* a component entry whose stack source is a local path, or a registry name
IsLocalStackEntry(component_data) ==
    TypeKeys(component_data) = {"stack"} /\ IsLocalPath(component_data.stack)
IsHubStackEntry(component_data) ==
    TypeKeys(component_data) = {"stack"} /\ ~IsLocalPath(component_data.stack)

\* the channel a registry reference asks for
RequestedChannel(component_data) == Get(component_data, "channel", <<"stable">>)

\* a component entry that references, by name, a registry stack that is not
\* registered or has nothing released to the channel asked for
Unpublished(component_data) ==
    /\ IsHubStackEntry(component_data)
    /\ \/ component_data.stack \notin DOMAIN hub
       \/ hub[component_data.stack].channels[RequestedChannel(component_data)[1]] = -1

\* the revision a published registry reference stands for
PublishedSpec(component_data) ==
    LET entry == hub[component_data.stack]
    IN entry.revisions[entry.channels[RequestedChannel(component_data)[1]]]

\* the positions of the entries of a spec that reference a published stack
PublishedEntries(data) ==
    { i \in 1..Len(data.components) :
        /\ IsHubStackEntry(data.components[i].data)
        /\ ~Unpublished(data.components[i].data) }

\* the specs a build of `data` goes through by registry references, at most
\* `depth` levels down
RECURSIVE ReachedSpecs(_, _)
ReachedSpecs(data, depth) ==
    IF depth = 0 THEN {}
    ELSE {data} \cup
         UNION { ReachedSpecs(PublishedSpec(data.components[i].data), depth - 1) :
                   i \in PublishedEntries(data) }

\* the spec the command is given
RootSpec == files[StackUri]

\* the references a spec makes, each with the direction it is resolved in
SpecReferences(data) ==
    { [ref |-> data.provides[i].forward, side |-> "provides"] :
        i \in 1..Len(data.provides) }
    \cup { [ref |-> data.requires[i].forward, side |-> "requires"] :
             i \in 1..Len(data.requires) }
    \cup { [ref |-> data.relations[i].provider, side |-> "provides"] :
             i \in 1..Len(data.relations) }
    \cup { [ref |-> data.relations[i].requirer, side |-> "requires"] :
             i \in 1..Len(data.relations) }

\* a reference of `data` names, in a published sub-stack, an endpoint that
\* the spec of the sub-stack does not declare in the map of the direction of
\* the reference
Misdirected(data) ==
    \E r \in SpecReferences(data) :
      LET parts == Split(r.ref, ":")
          k == IndexOfName(data.components, parts[1])
      IN /\ k \in PublishedEntries(data)
         /\ parts[2] \notin Names(PublishedSpec(data.components[k].data)[r.side])

\* C11: a tree that was built has, for every forward and every relation side
\* that names a child stack, the endpoint name among the keys of the child's
\* resolved map of the same direction (provides for a provides forward and a
\* relation provider, requires for a requires forward and a relation
\* requirer); and when a spec the build goes through names an endpoint its
\* sub-stack declares only in the other map or not at all, the build raises
\* and no tree exists.
C11_MatchingDirectionOnly ==
    /\ stack # NoStack =>
         \A S \in StackNodes(stack) : \A r \in SpecReferences(S.data) :
           LET parts == Split(r.ref, ":")
               child == S.components[IndexOfName(S.components, parts[1])].node
           IN child.kind = "stack" => parts[2] \in Names(child[r.side])
    /\ (/\ pc # "start"
        /\ \E d \in ReachedSpecs(RootSpec, RecursionLimit) : Misdirected(d))
         => (pc = "raised" /\ stack = NoStack)

\* a build that raised KeyError on a root relation whose provider names an
\* endpoint the sub-stack declares among its requires only
C11_Witness ==
    /\ pc = "raised"
    /\ error = "KeyError"
    /\ Misdirected(RootSpec)
    /\ \E i \in 1..Len(RootSpec.relations) :
         LET parts == Split(RootSpec.relations[i].provider, ":")
             k == IndexOfName(RootSpec.components, parts[1])
         IN /\ k \in PublishedEntries(RootSpec)
            /\ parts[2] \in Names(PublishedSpec(RootSpec.components[k].data).requires)
            /\ parts[2] \notin Names(PublishedSpec(RootSpec.components[k].data).provides)

\* C12: a tree that was built has no component entry that references a
\* registry stack which is not registered, or whose pointer for the channel
\* asked for ("stable" when the entry gives none) is -1; and when a spec the
\* build goes through has such an entry, the build raises and no tree exists.
C12_UnpublishedDependencyFails ==
    /\ stack # NoStack =>
         \A S \in StackNodes(stack) : \A i \in 1..Len(S.data.components) :
           ~Unpublished(S.data.components[i].data)
    /\ (/\ pc # "start"
        /\ \E d \in ReachedSpecs(RootSpec, RecursionLimit) :
             \E i \in 1..Len(d.components) : Unpublished(d.components[i].data))
         => (pc = "raised" /\ stack = NoStack)

\* a build that raised KeyError on a root entry that gives no channel and
\* names a registered stack with a revision released to "edge" only
C12_Witness ==
    /\ pc = "raised"
    /\ error = "KeyError"
    /\ \E i \in 1..Len(RootSpec.components) :
         LET component_data == RootSpec.components[i].data
         IN /\ Unpublished(component_data)
            /\ "channel" \notin DOMAIN component_data
            /\ component_data.stack \in DOMAIN hub
            /\ hub[component_data.stack].channels["edge"] >= 0

\* C13 as stated: a root component whose stack source is a local path, and
\* which is the first component that is not a charm, is built into a child
\* stack node under its local name that holds the spec found at that path,
\* unless the build then fails on what that spec or a later entry declares;
\* when the path holds no spec the build raises the "Not stack.yaml found"
\* exception.
C13_LocalPathBuilt ==
    pc # "start" =>
      \A i \in 1..Len(RootSpec.components) :
        (/\ IsLocalStackEntry(RootSpec.components[i].data)
         /\ \A j \in 1..(i - 1) : TypeKeys(RootSpec.components[j].data) = {"charm"})
          => LET stack_uri == RootSpec.components[i].data.stack
             IN IF stack_uri \in DOMAIN files
                THEN \/ /\ stack # NoStack
                        /\ stack.components[i].node.kind = "stack"
                        /\ stack.components[i].node.path = <<RootSpec.components[i].name>>
                        /\ stack.components[i].node.data = files[stack_uri]
                     \/ /\ pc = "raised"
                        /\ error \in {"KeyError", "ValueError", "RecursionError",
                                      "Exception: charm or stack",
                                      "Exception: Not stack.yaml found"}
                ELSE /\ pc = "raised"
                     /\ stack = NoStack
                     /\ error = "Exception: Not stack.yaml found"

\* every spec a build can load: the files on disk and the stored revisions
AllSpecs ==
    { files[p] : p \in DOMAIN files }
    \cup UNION { { hub[n].revisions[r] : r \in DOMAIN hub[n].revisions } :
                   n \in DOMAIN hub }

\* C14: in a tree that was built every component entry of every spec carries
\* exactly one of the keys `charm` and `stack`; a build that goes through a
\* spec with an entry carrying neither or both raises the "charm or stack
\* must be present" exception and leaves no tree, also when the entries
\* before it are in order; and that exception is raised only when some spec
\* has such an entry.
C14_ExactlyOneType ==
    /\ stack # NoStack =>
         \A S \in StackNodes(stack) : \A i \in 1..Len(S.data.components) :
           Cardinality(TypeKeys(S.data.components[i].data)) = 1
    /\ (/\ pc # "start"
        /\ \E d \in ReachedSpecs(RootSpec, RecursionLimit) :
             \E i \in 1..Len(d.components) :
               Cardinality(TypeKeys(d.components[i].data)) # 1)
         => /\ pc = "raised"
            /\ stack = NoStack
            /\ error = "Exception: charm or stack"
    /\ error = "Exception: charm or stack" =>
         \E d \in AllSpecs : \E i \in 1..Len(d.components) :
           Cardinality(TypeKeys(d.components[i].data)) # 1

\* a build that raised on an entry carrying both keys, declared after an
\* entry that is in order
C14_Witness ==
    /\ pc = "raised"
    /\ error = "Exception: charm or stack"
    /\ stack = NoStack
    /\ \E i \in 2..Len(RootSpec.components) :
         /\ TypeKeys(RootSpec.components[i].data) = {"stack", "charm"}
         /\ \A j \in 1..(i - 1) :
              Cardinality(TypeKeys(RootSpec.components[j].data)) = 1

\* ------------------------------------------------------- claims: domains
\* the instance file without the overrides written under the name `key`
WithoutOverride(cfg, key) ==
    [cfg EXCEPT !["components"] = SelectSeq(@, LAMBDA o : o.name # key)]

\* the models in which the Deploy resources of the charm at `path` are created
DeployModels(path) == { resources[d].model : d \in DeployPositions(path) }

\* C15: the Deploy of every charm targets, in its model field and in the -m
\* option of its command, the model Config.get_model returns for the
\* hierarchical name of the stack that directly contains the charm (the
\* empty name for a charm of the root); the instance file without the
\* overrides written under the charm's own dotted name gives the same model.
C15_DeployInOwnersDomain ==
    Compiled =>
      \A c \in CharmPaths(stack) :
        /\ DeployPositions(c) # {}
        /\ \A d \in DeployPositions(c) :
             LET owner == SubSeq(c, 1, Len(c) - 1)
                 own == Join(c, STACK_SEPARATOR_REPR)
             IN /\ resources[d].model = GetModel(Cfg, ComponentName(owner))
                /\ resources[d].model
                     = GetModel(NewConfig(WithoutOverride(config, own), CurrentModel),
                                ComponentName(owner))
                /\ resources[d].create_command[7] = <<"-m">>
                /\ resources[d].create_command[8] = resources[d].model

\* a plan in which a charm of the root has an override under its own name
\* and is deployed elsewhere, and the charm of an overridden sub-stack is
\* deployed to the model of the sub-stack
C15_Witness ==
    /\ Compiled
    /\ \E c \in CharmPaths(stack) :
         \E k \in 1..Len(config["components"]) :
           /\ Len(c) = 1
           /\ config["components"][k].name = Join(c, STACK_SEPARATOR_REPR)
           /\ config["components"][k].data.model \notin DeployModels(c)
    /\ \E c \in CharmPaths(stack) :
         \E k \in 1..Len(config["components"]) :
           /\ Len(c) = 2
           /\ config["components"][k].name = <<c[1][1]>>
           /\ DeployModels(c) = {config["components"][k].data.model}

\* C16: each charm is deployed in one model.  When the models of the charms
\* at the two ends of a relation differ, the relation has an Offer in the
\* model of the provider charm, then a Consume and a Relate in the model of
\* the requirer charm (model field and -m option), and the Consume imports
\* "<model of the Offer>.<offer name>"; when they are the same, the relation
\* has one Relate alone, in that model.
C16_RelationModels ==
    Compiled =>
      \A S \in StackNodes(stack) : \A i \in 1..Len(S.relations) :
        LET P == PositionsOf(S.path, i)
            pm == DeployModels(EndpointCharm(S.relations[i].provider))
            rm == DeployModels(EndpointCharm(S.relations[i].requirer))
        IN /\ Cardinality(pm) = 1
           /\ Cardinality(rm) = 1
           /\ IF pm # rm
              THEN \E k \in P :
                     /\ P = {k, k + 1, k + 2}
                     /\ resources[k].type = OFFER
                     /\ resources[k].model \in pm
                     /\ resources[k + 1].type = SAAS
                     /\ resources[k + 1].model \in rm
                     /\ resources[k + 1].create_command[5] = resources[k + 1].model
                     /\ resources[k + 1].create_command[3]
                          = resources[k].model \o <<".">>
                            \o resources[k].create_command[4]
                     /\ resources[k + 2].type = RELATION
                     /\ resources[k + 2].model \in rm
                     /\ resources[k + 2].create_command[6] = resources[k + 2].model
              ELSE \E k \in P :
                     /\ P = {k}
                     /\ resources[k].type = RELATION
                     /\ resources[k].model \in pm
                     /\ resources[k].create_command[6] = resources[k].model

\* a plan with a cross-domain relation whose provider is a charm of the root
\* and whose requirer is two levels down, and a relation inside one model
\* that is not the current model
C16_Witness ==
    /\ Compiled
    /\ \E i \in 1..Len(stack.relations) :
         /\ Len(EndpointCharm(stack.relations[i].provider)) = 1
         /\ Len(EndpointCharm(stack.relations[i].requirer)) = 3
         /\ DeployModels(EndpointCharm(stack.relations[i].provider))
              # DeployModels(EndpointCharm(stack.relations[i].requirer))
    /\ \E S \in StackNodes(stack) : \E i \in 1..Len(S.relations) :
         /\ DeployModels(EndpointCharm(S.relations[i].provider))
              = DeployModels(EndpointCharm(S.relations[i].requirer))
         /\ CurrentModel \notin DeployModels(EndpointCharm(S.relations[i].provider))

\* -------------------------------------------------------- claims: naming
\* the instance name a caller of the library compiles the plan with
PlanInstanceName == IF Truthy(arg) THEN arg ELSE stack.stack_name

\* C17 as stated: for a cross-domain relation, the offer name (the name the
\* Offer command gives the offer, the alias of the Consume and the provider
\* reference of the Relate) is the instance name, the hierarchical name of
\* the provider charm and the endpoint name, joined by the separator: for
\* shop = {db, web}, relation db:mysql -> web:backend it is
\* "shop-s-db-s-mysql".
C17_OfferNameJoined ==
    Compiled =>
      \A S \in StackNodes(stack) : \A i \in 1..Len(S.relations) :
        CrossDomain(S.relations[i]) =>
          LET provider == S.relations[i].provider
              offer_name ==
                  Join(<<PlanInstanceName,
                         ComponentName(EndpointCharm(provider)),
                         Split(provider.endpoint, ":")[2]>>,
                       STACK_SEPARATOR)
          IN \E k \in PositionsOf(S.path, i) :
               /\ resources[k].type = OFFER
               /\ resources[k].create_command[4] = offer_name
               /\ resources[k + 1].name = offer_name
               /\ resources[k + 2].create_command[3] = offer_name

\* C18 as stated: a plan never holds two Offers with the same offer name, nor
\* two Consumes with the same alias in the same model.
C18_NoNamingCollision ==
    Compiled =>
      \A i, j \in 1..Len(resources) :
        i # j =>
          /\ ~(/\ resources[i].type = OFFER
               /\ resources[j].type = OFFER
               /\ resources[i].create_command[4] = resources[j].create_command[4])
          /\ ~(/\ resources[i].type = SAAS
               /\ resources[j].type = SAAS
               /\ resources[i].model = resources[j].model
               /\ resources[i].name = resources[j].name)

\* the paths of all the nodes of a tree
NodePaths(node) == { S.path : S \in StackNodes(node) } \cup CharmPaths(node)

\* the local names of the components of every stack are pairwise different
LocalNamesUnique(node) ==
    \A S \in StackNodes(node) : \A i, j \in 1..Len(S.components) :
      i # j => S.components[i].name # S.components[j].name

\* C19 as stated: in a tree whose local names are unique within each stack,
\* two different nodes never have the same hierarchical name and two
\* different charms never have Deploy resources of the same name.
C19_HierarchicalNamesUnique ==
    (Compiled /\ LocalNamesUnique(stack)) =>
      /\ \A p, q \in NodePaths(stack) :
           p # q => ComponentName(p) # ComponentName(q)
      /\ \A p, q \in CharmPaths(stack) :
           p # q =>
             \A d \in DeployPositions(p) : \A e \in DeployPositions(q) :
               resources[d].name # resources[e].name

\* the string `s` holds the string `a`
ContainsString(s, a) ==
    \E i \in 1..(Len(s) - Len(a) + 1) : SubSeq(s, i, i + Len(a) - 1) = a

\* C20 as stated: for every node whose local names, from the root down, do
\* not contain the separator, replacing the separator by "." in the node's
\* hierarchical name gives the local names joined by ".", and the model an
\* override of the instance file gives under that dotted name is the model
\* Config.get_model returns for the node.
C20_NamingRoundTrips ==
    stack # NoStack =>
      \A p \in NodePaths(stack) :
        (\A i \in 1..Len(p) : ~ContainsString(p[i], STACK_SEPARATOR)) =>
          /\ Replace(ComponentName(p), STACK_SEPARATOR, STACK_SEPARATOR_REPR)
               = Join(p, STACK_SEPARATOR_REPR)
          /\ \A k \in 1..Len(config["components"]) :
               config["components"][k].name = Join(p, STACK_SEPARATOR_REPR)
                 => GetModel(Cfg, ComponentName(p))
                      = config["components"][k].data.model

\* ----------------------------------------------- claims: domain fallback
\* the key Config.get_model looks a hierarchical name up under
DottedName(component_name) ==
    Replace(component_name, STACK_SEPARATOR, STACK_SEPARATOR_REPR)

\* the models the instance file sets under the key `dotted`
ModelsSetUnder(dotted) ==
    { config["components"][k].data.model :
        k \in { j \in 1..Len(config["components"]) :
                  /\ config["components"][j].name = dotted
                  /\ "model" \in DOMAIN config["components"][j].data
                  /\ config["components"][j].data.model \notin {None, <<>>} } }

\* the default model of the instance file, when it sets one
DefaultsSet ==
    IF "default-model" \in DOMAIN config
       /\ config["default-model"] \notin {None, <<>>}
    THEN {config["default-model"]} ELSE {}

\* C21: for the hierarchical name of every node of the tree, Config.get_model
\* returns the model the instance file sets under the dotted form of the name
\* when it sets one, otherwise the default-model of the file when it sets
\* one, otherwise the current model; the result is always a model (never
\* None or empty), and the Deploy of every charm is created in the model so
\* obtained for the stack that contains it.
C21_ThreeTierFallback ==
    Compiled =>
      /\ \A p \in NodePaths(stack) :
           LET m == GetModel(Cfg, ComponentName(p))
               set == ModelsSetUnder(DottedName(ComponentName(p)))
           IN /\ m \notin {None, <<>>}
              /\ set # {} => set = {m}
              /\ (set = {} /\ DefaultsSet # {}) => DefaultsSet = {m}
              /\ (set = {} /\ DefaultsSet = {}) => m = CurrentModel
      /\ \A c \in CharmPaths(stack) :
           LET owner == ComponentName(SubSeq(c, 1, Len(c) - 1))
               set == ModelsSetUnder(DottedName(owner))
           IN DeployModels(c) =
                IF set # {} THEN set
                ELSE IF DefaultsSet # {} THEN DefaultsSet
                ELSE {CurrentModel}

\* a plan compiled with an instance file that sets a default model, a model
\* for the sub-stack "web" and a model for the charm "db": the charm of the
\* sub-stack goes to the override, the charm of the root to the default
C21_Witness ==
    /\ Compiled
    /\ DefaultsSet # {}
    /\ \E c \in CharmPaths(stack) :
         /\ Len(c) = 2
         /\ ModelsSetUnder(<<c[1][1]>>) = DeployModels(c)
         /\ DeployModels(c) # DefaultsSet
    /\ \E c \in CharmPaths(stack) :
         /\ Len(c) = 1
         /\ ModelsSetUnder(c[1]) # {}
         /\ DeployModels(c) = DefaultsSet

\* ----------------------------------------------- claims: relation order
\* the Relate resources the relation loop of the stack at `path` contributed
RelatesOf(path) ==
    SelectSeq(resources, LAMBDA r : r.type = RELATION /\ r.origin.node = path)

\* the endpoint a declared reference resolves to: the stack that contains
\* the charm its chain of forwards ends at, and "charm:endpoint"
DeclaredEndpoint(S, reference, side) ==
    LET t == DeclaredTarget(S, reference, side)
    IN Endpoint(t.charm[Len(t.charm)] \o <<":">> \o t.endpoint_name,
                SubSeq(t.charm, 1, Len(t.charm) - 1))

\* C22: the relations of every stack node are as many as its spec declares,
\* and the i-th is the i-th declared relation, resolved; the node contributes
\* one Relate per declared relation, the i-th with the requirer of the i-th
\* declaration, and all the resources of a relation stand before all the
\* resources of the relations declared after it.
C22_RelationsInDeclarationOrder ==
    Compiled =>
      \A S \in StackNodes(stack) :
        /\ Len(S.relations) = Len(S.data.relations)
        /\ Len(RelatesOf(S.path)) = Len(S.data.relations)
        /\ \A i \in 1..Len(S.data.relations) :
             /\ S.relations[i].provider
                  = DeclaredEndpoint(S, S.data.relations[i].provider, "provides")
             /\ S.relations[i].requirer
                  = DeclaredEndpoint(S, S.data.relations[i].requirer, "requires")
             /\ DeployedEndpoint(S, S.data.relations[i].requirer, "requires")
                  = {RelatesOf(S.path)[i].create_command[4]}
             /\ RelatesOf(S.path)[i].origin.rel = i
             /\ \A j \in (i + 1)..Len(S.data.relations) :
                  \A k \in PositionsOf(S.path, i) : \A l \in PositionsOf(S.path, j) :
                    k < l

\* a root stack with two relations of different requirers, the first one
\* cross-domain, over a sub-stack that declares a relation of its own
C22_Witness ==
    /\ Compiled
    /\ Len(stack.relations) = 2
    /\ stack.relations[1].requirer # stack.relations[2].requirer
    /\ CrossDomain(stack.relations[1])
    /\ \E S \in StackNodes(stack) : S.path # <<>> /\ Len(S.relations) = 1

\* ---------------------------------------------------- claims: inventory
\* the names of the resources of type t that target `model`, in plan order
PlanNames(model, t) ==
    LET at == { k \in 1..Len(resources) :
                  resources[k].type = t /\ resources[k].model = model }
        nth[i \in 1..Cardinality(at)] ==
            CHOOSE k \in at : Cardinality({ j \in at : j < k }) = i - 1
    IN [i \in 1..Cardinality(at) |-> resources[nth[i]].name]

\* C23: when the first Plan.deploy of a plan has returned, the inventory has
\* an entry for exactly the models the resources of the plan target, and
\* under each model the list "charms" is the names of the Deploy resources
\* of that model in plan order, "offers" those of its Offers and "saas"
\* those of its Consumes; the entry has no other list, and no list holds
\* the name of a Relate.
C23_InventoryOfCompleteRun ==
    (pc = "deploy_returned" /\ executions = 1) =>
      /\ DOMAIN info = { resources[k].model : k \in 1..Len(resources) }
      /\ \A m \in DOMAIN info :
           /\ DOMAIN info[m] = {CHARM, SAAS, OFFER}
           /\ \A t \in {CHARM, SAAS, OFFER} : info[m][t] = PlanNames(m, t)
           /\ \A t \in {CHARM, SAAS, OFFER} : \A i \in 1..Len(info[m][t]) :
                info[m][t][i] # None

\* a complete first run of a plan that deploys to two models and holds an
\* Offer, a Consume and a Relate
C23_Witness ==
    /\ pc = "deploy_returned"
    /\ executions = 1
    /\ Cardinality(DOMAIN info) >= 2
    /\ \E m \in DOMAIN info : Len(info[m][CHARM]) >= 2
    /\ \E i, j, k \in 1..Len(resources) :
         /\ resources[i].type = OFFER
         /\ resources[j].type = SAAS
         /\ resources[k].type = RELATION

\* --------------------------------------------------- claims: immutability
\* C24 as stated: the component entries of the spec data a Stack was built
\* from stay what was loaded, through dict(stack) and deploy_stack.
C24_SpecDataUnchanged ==
    stack # NoStack => stack.data.components = RootSpec.components

\* ------------------------------------------------------ claims: retries
\* C26 as stated: whatever number of Plan.deploy invocations a plan has
\* seen, the inventory lists under each model and type no more names than
\* the plan holds resources of that model and type: each created Deploy,
\* Offer and Consume at most once.
C26_InventoryListsOnce ==
    Compiled =>
      \A m \in DOMAIN info : \A t \in {CHARM, SAAS, OFFER} :
        Len(info[m][t]) <= Len(PlanNames(m, t))

\* ------------------------------------------------------- claims: offers
\* the application of the endpoint "<model>.<application>:<endpoint>" an
\* Offer command offers
OfferedApplication(offer) ==
    Split(Split(offer.create_command[3], ":")[1], ".")[2]

\* C27 as stated: the application every Offer of the plan offers is the name
\* of a Deploy resource that stands earlier in the plan and targets the
\* model of the Offer.
C27_OfferedApplicationDeployed ==
    Compiled =>
      \A k \in 1..Len(resources) :
        resources[k].type = OFFER =>
          \E d \in 1..(k - 1) :
            /\ resources[d].type = CHARM
            /\ resources[d].name = OfferedApplication(resources[k])
            /\ resources[d].model = resources[k].model

\* ------------------------------------------------------ claims: destroy
\* the commands that have run of the entries of the list `t`
RemovedOf(t) == SelectSeq(removed, LAMBDA c : c.command.type = t)

\* every entry of the list `t` of every model of the record has been removed
AllRemoved(record, t) ==
    \A m \in DOMAIN record.resources :
      \A i \in 1..Len(record.resources[m][t]) :
        \E k \in 1..Len(removed) :
          /\ removed[k].ok
          /\ removed[k].command
               = [type |-> t, name |-> record.resources[m][t][i], model |-> m]

\* C28: destroy_stack runs no offer removal before every consumed offer of
\* every model of the record has been removed, and no application removal
\* before every offer has; a command that fails is the last one that runs,
\* and it leaves the command with the exception; the record of the instance
\* is still in the instance file while commands run and after a failure,
\* and it is removed only when every command has run successfully.
C28_DestroyInReverseOrder ==
    /\ \A k \in 1..Len(removed) :
         /\ ~removed[k].ok => k = Len(removed) /\ pc = "raised"
                               /\ error = "CalledProcessError"
         /\ \A j \in 1..(k - 1) :
              /\ removed[k].command.type = SAAS => removed[j].command.type = SAAS
              /\ removed[k].command.type = OFFER => removed[j].command.type # CHARM
         /\ arg \in DOMAIN instances =>
              /\ removed[k].command.type = OFFER =>
                   AllRemoved(instances[arg], SAAS)
              /\ removed[k].command.type = CHARM =>
                   /\ AllRemoved(instances[arg], SAAS)
                   /\ AllRemoved(instances[arg], OFFER)
    /\ pc \in {"removing", "raised", "destroyed"} => arg \in DOMAIN instances
    /\ pc = "destroyed" =>
         /\ \A t \in {SAAS, OFFER, CHARM} : AllRemoved(instances[arg], t)
         /\ \A k \in 1..Len(removed) : removed[k].ok
    /\ <<"prod">> \notin DOMAIN instances =>
         /\ pc = "returned"
         /\ arg = <<"prod">>
         /\ \A k \in 1..Len(removed) : removed[k].ok

\* an instance spread over two models, each with a consumed offer and an
\* offer, has been destroyed and its record removed
C28_Witness ==
    /\ <<"prod">> \notin DOMAIN instances
    /\ \E a, b \in 1..Len(removed) :
         /\ removed[a].command.type = SAAS
         /\ removed[b].command.type = SAAS
         /\ removed[a].command.model # removed[b].command.model
    /\ Len(RemovedOf(OFFER)) >= 2
    /\ Len(RemovedOf(CHARM)) >= 3

\* ----------------------------------------------------- claims: registry
ChannelNames == { CHARMHUB_CHANNELS[k] : k \in 1..Len(CHARMHUB_CHANNELS) }

\* C25 as stated: a release of a registered name with uploaded revisions,
\* given a revision that exists (0 included) and a valid channel, returns
\* that revision and leaves the channel pointing at it; given no revision,
\* it returns and releases the latest one.
C25_ReleasePointsAtRevision ==
    (/\ last.op = "release"
     /\ last.name \in DOMAIN hub
     /\ Len(last.channel) = 1
     /\ last.channel[1] \in ChannelNames) =>
       LET entry == hub[last.name]
       IN /\ (last.revision.type # "none" /\ last.revision.val \in DOMAIN entry.revisions)
               => /\ last.result = Ok(<<last.revision.val>>)
                  /\ entry.channels[last.channel[1]] = last.revision.val
          /\ (last.revision.type = "none" /\ entry.latest >= 0)
               => /\ last.result = Ok(<<entry.latest>>)
                  /\ entry.channels[last.channel[1]] = entry.latest

\* every entry of the registry numbers its revisions 0..latest and points
\* each channel at nothing (-1) or at a revision it holds
RegistryWellFormed ==
    \A n \in DOMAIN hub :
      /\ hub[n].latest >= -1
      /\ DOMAIN hub[n].revisions = 0..hub[n].latest
      /\ DOMAIN hub[n].channels = ChannelNames
      /\ \A c \in ChannelNames :
           hub[n].channels[c] = -1 \/ hub[n].channels[c] \in DOMAIN hub[n].revisions

\* a step of upload: refused, it leaves the registry as it is; given the
\* content of the latest revision, it leaves the registry as it is and
\* returns no number; given other content, it adds that content as revision
\* latest+1, returns the number, and changes nothing else
UploadEffect ==
    last'.op = "upload" =>
      IF ~last'.result.ok THEN hub' = hub
      ELSE LET content == files[last'.name]
               n == content.name
               old == hub[n]
               revision == old.latest + 1
           IN IF old.latest >= 0 /\ old.revisions[old.latest] = content
              THEN hub' = hub /\ last'.result.val = <<>>
              ELSE /\ last'.result.val = <<revision>>
                   /\ DOMAIN hub' = DOMAIN hub
                   /\ \A m \in DOMAIN hub \ {n} : hub'[m] = hub[m]
                   /\ hub'[n].latest = revision
                   /\ DOMAIN hub'[n].revisions = DOMAIN old.revisions \cup {revision}
                   /\ hub'[n].revisions[revision] = content
                   /\ \A r \in DOMAIN old.revisions :
                        hub'[n].revisions[r] = old.revisions[r]
                   /\ hub'[n].channels = old.channels

\* C29: after any sequence of register, unregister, upload and release,
\* every registered name has the revisions 0..latest-revision (-1 when it
\* has none) and every channel points at -1 or at one of them; an upload of
\* content other than the latest revision adds exactly revision latest+1,
\* an upload of the content of the latest revision changes nothing.
C29_RevisionsDense ==
    []RegistryWellFormed /\ [][UploadEffect]_vars

\* a name with two revisions, one channel at each, has just been given the
\* content of its latest revision again, while the other name was
\* unregistered after it had a revision released
C29_Witness ==
    /\ last.op = "upload"
    /\ last.result = Ok(<<>>)
    /\ <<"frontend">> \in DOMAIN hub
    /\ hub[<<"frontend">>].latest = 1
    /\ hub[<<"frontend">>].channels["stable"] = 0
    /\ hub[<<"frontend">>].channels["candidate"] = 1
    /\ <<"shop">> \in DOMAIN hub
    /\ hub[<<"shop">>].latest = -1

\* the references the stored revisions of the registry make to sub-stacks
StoredReferences ==
    { component \in UNION { UNION { { hub[n].revisions[r].components[i].data :
                                        i \in 1..Len(hub[n].revisions[r].components) } :
                                    r \in DOMAIN hub[n].revisions } :
                            n \in DOMAIN hub } :
        "stack" \in DOMAIN component }

\* C30 as stated: every reference of every stored revision names a stack
\* that is registered and has a revision released to the channel the
\* reference requests, and no tree built from the revision a channel
\* serves fails on a dependency that is not published.
C30_DependenciesPublished ==
    /\ \A component \in StoredReferences :
         /\ component.stack \in DOMAIN hub
         /\ hub[component.stack].channels[RequestedChannel(component)[1]] >= 0
    /\ ~(/\ last.op = "build"
         /\ last.name \in DOMAIN hub
         /\ hub[last.name].channels[last.channel[1]] >= 0
         /\ last.result = Err("KeyError"))

====
